---- MODULE Spec2Model ----
(***************************************************************************)
(* Budget Tracker (src/app.js): StorageService over localStorage, the      *)
(* BudgetManager and the ExpenseManager, the validation of the UIManager   *)
(* and the form handlers of the App; the AuthManager                       *)
(* (src/firebase-config.js); and the page in Firebase mode                 *)
(* (src/unnamed/part_002).                                                 *)
(*                                                                         *)
(* JavaScript values are modelled as follows.                              *)
(*  - A number is a record [k, neg, m]. k = "num" is a finite IEEE 754     *)
(*    double of sign neg and magnitude m, k = "NaN", k = "Infinity";       *)
(*    k = "null" is JSON null and k = "undefined" a missing property.      *)
(*    The magnitude counts units of 2^-64 and is written in limbs of 20    *)
(*    bits, least significant first, without leading zero limb. Every      *)
(*    number the model meets is 0 or of magnitude 2^-7 at least, hence a   *)
(*    whole number of units; -0 is not told from 0.                        *)
(*  - A text property is a string; Absent marks a property the object does *)
(*    not carry (undefined).                                               *)
(*  - A record (the persisted aggregate) is [obj, arr, budget, expenses,   *)
(*    version, createdAt]; obj says the value is a non-null object and arr *)
(*    that its expenses property is an array.                              *)
(*  - The item stored under the storage key is [present, parses, doc]:     *)
(*    doc is what JSON.parse makes of the stored text.                     *)
(***************************************************************************)
EXTENDS Integers, Sequences, FiniteSets, TLC

\* ---------------------------------------------------------------- bounds
\* generateId is called at most MaxIds times
MaxIds == 2

\* a page has at most MaxSignIns notifications of a signed-in user before it is reloaded
MaxSignIns == 3

\* a form is submitted while fewer than MaxTimers callbacks of setTimeout are pending
MaxTimers == 2

\* ---------------------------------------------------------------- values
Absent == "<undefined>"

\* -------- magnitudes: naturals in limbs of 20 bits
Limb == 2^20

RECURSIVE Strip(_)
Strip(a) == IF a # <<>> /\ a[Len(a)] = 0 THEN Strip(SubSeq(a, 1, Len(a) - 1)) ELSE a

LimbAt(a, i) == IF i <= Len(a) THEN a[i] ELSE 0

RECURSIVE FromNat(_)
FromNat(n) == IF n = 0 THEN <<>> ELSE <<(n % Limb)>> \o FromNat(n \div Limb)

RECURSIVE ToNat(_)
ToNat(a) == IF a = <<>> THEN 0 ELSE Head(a) + Limb * ToNat(Tail(a))

RECURSIVE AddFrom(_, _, _, _)
AddFrom(a, b, i, carry) ==
    IF i > Len(a) /\ i > Len(b) THEN FromNat(carry)
    ELSE LET sum == LimbAt(a, i) + LimbAt(b, i) + carry
         IN  <<(sum % Limb)>> \o AddFrom(a, b, i + 1, sum \div Limb)

AddMag(a, b) == AddFrom(a, b, 1, 0)

\* a - b for a >= b
RECURSIVE SubFrom(_, _, _, _)
SubFrom(a, b, i, borrow) ==
    IF i > Len(a) THEN <<>>
    ELSE LET diff == LimbAt(a, i) - LimbAt(b, i) - borrow
         IN  IF diff < 0 THEN <<diff + Limb>> \o SubFrom(a, b, i + 1, 1)
             ELSE <<diff>> \o SubFrom(a, b, i + 1, 0)

SubMag(a, b) == Strip(SubFrom(a, b, 1, 0))

LessMag(a, b) ==
    IF Len(a) # Len(b) THEN Len(a) < Len(b)
    ELSE \E i \in 1..Len(a) : a[i] < b[i] /\ \A j \in (i + 1)..Len(a) : a[j] = b[j]

RECURSIVE MulFrom(_, _, _, _)
MulFrom(a, k, i, carry) ==
    IF i > Len(a) THEN FromNat(carry)
    ELSE LET prod == a[i] * k + carry
         IN  <<(prod % Limb)>> \o MulFrom(a, k, i + 1, prod \div Limb)

\* a * k for a small k
MulSmall(a, k) == MulFrom(a, k, 1, 0)

\* quotient and remainder of the limbs 1..i of a, rem carried in from above
RECURSIVE DivFrom(_, _, _, _)
DivFrom(a, k, i, rem) ==
    IF i = 0 THEN [q |-> <<>>, r |-> rem]
    ELSE LET cur == rem * Limb + a[i]
             rest == DivFrom(a, k, i - 1, cur % k)
         IN  [q |-> Append(rest.q, cur \div k), r |-> rest.r]

\* a \div k and a % k for a small k
DivSmall(a, k) ==
    LET d == DivFrom(a, k, Len(a), 0)
    IN  [q |-> Strip(d.q), r |-> d.r]

RECURSIVE Bits(_)
Bits(n) == IF n = 0 THEN 0 ELSE 1 + Bits(n \div 2)

BitLen(a) == IF a = <<>> THEN 0 ELSE 20 * (Len(a) - 1) + Bits(a[Len(a)])

\* bit i of a, bit 0 the least significant
Bit(a, i) == (LimbAt(a, (i \div 20) + 1) \div (2^(i % 20))) % 2

\* a with the bits below bit i cleared
Truncate(a, i) ==
    Strip([j \in 1..Len(a) |->
              IF j < (i \div 20) + 1 THEN 0
              ELSE IF j = (i \div 20) + 1 THEN a[j] - (a[j] % (2^(i % 20)))
              ELSE a[j]])

Pow2(i) == [j \in 1..((i \div 20) + 1) |-> IF j = (i \div 20) + 1 THEN 2^(i % 20) ELSE 0]

\* a rounded to 53 significant bits, to nearest, ties to even; inexact says that the
\* value rounded lies above a by less than one unit
Round53(a, inexact) ==
    LET drop == BitLen(a) - 53
    IN  IF drop <= 0 THEN a
        ELSE LET half == Bit(a, drop - 1) = 1
                 sticky == inexact \/ \E j \in 0..(drop - 2) : Bit(a, j) = 1
                 odd == Bit(a, drop) = 1
             IN  IF half /\ (sticky \/ odd)
                 THEN AddMag(Truncate(a, drop), Pow2(drop))
                 ELSE Truncate(a, drop)

\* a * 2^k, limb by limb: the low bits of a limb move up, its high bits into the next
ShiftLeft(a, k) ==
    LET s == k % 20
        up == [j \in 1..(Len(a) + 1) |->
                  (LimbAt(a, j) % (2^(20 - s))) * (2^s)
                  + (IF j = 1 THEN 0 ELSE a[j - 1] \div (2^(20 - s)))]
    IN  IF a = <<>> THEN <<>> ELSE [j \in 1..(k \div 20) |-> 0] \o Strip(up)

\* a \div 2^k
ShiftRight(a, k) ==
    LET s == k % 20
        b == SubSeq(a, (k \div 20) + 1, Len(a))
    IN  IF k \div 20 >= Len(a) THEN <<>>
        ELSE Strip([j \in 1..Len(b) |->
                       (b[j] \div (2^s)) + (LimbAt(b, j + 1) % (2^s)) * (2^(20 - s))])

\* one step of the long division: the next bit of the dividend brought down onto the
\* remainder of the bits above it
DivStep(above, bit, b) ==
    LET cur == AddMag(ShiftLeft(above.r, 1), FromNat(bit))
    IN  IF LessMag(cur, b) THEN [q |-> ShiftLeft(above.q, 1), r |-> cur]
        ELSE [q |-> AddMag(ShiftLeft(above.q, 1), <<1>>), r |-> SubMag(cur, b)]

\* the bits hi..lo of a brought down one by one, above the quotient and remainder of
\* the bits above hi. The range is halved and above is evaluated first (the test on
\* its lengths, which is never true) to keep the evaluation shallow.
RECURSIVE DivBits(_, _, _, _, _)
DivBits(a, b, hi, lo, above) ==
    IF hi < lo \/ Len(above.q) + Len(above.r) < 0 THEN above
    ELSE IF hi = lo THEN DivStep(above, Bit(a, hi), b)
    ELSE LET mid == (hi + lo + 1) \div 2
         IN  DivBits(a, b, mid - 1, lo, DivBits(a, b, hi, mid, above))

\* a \div b and a % b for b # 0
DivMag(a, b) == DivBits(a, b, BitLen(a) - 1, 0, [q |-> <<>>, r |-> <<>>])

\* -------- numbers
Finite(neg, m) == [k |-> "num", neg |-> neg /\ m # <<>>, m |-> m]

\* the double nearest to n / 100: what a decimal text with two decimals parses to
Num(n) ==
    LET abs == IF n < 0 THEN 0 - n ELSE n
        d == DivSmall(<<0, 0, 0>> \o MulSmall(FromNat(abs), 16), 100)
    IN  Finite(n < 0, Round53(d.q, d.r # 0))

Zero == Finite(FALSE, <<>>)
NaN == [k |-> "NaN", neg |-> FALSE, m |-> <<>>]
Infinity == [k |-> "Infinity", neg |-> FALSE, m |-> <<>>]
JsonNull == [k |-> "null", neg |-> FALSE, m |-> <<>>]
Undefined == [k |-> "undefined", neg |-> FALSE, m |-> <<>>]

\* typeof x === 'number'
TypeofNumber(x) == x.k \in {"num", "NaN", "Infinity"}

\* isNaN(x) for a value whose typeof is 'number'
isNaN(x) == x.k = "NaN"

\* !x for a text property: undefined and the empty string are falsy
Falsy(s) == s \in {Absent, ""}

\* x < 0 and x > 0, to state the claims with
IsNegative(x) == x.k = "num" /\ x.neg
IsPositive(x) == x.k = "Infinity" \/ (x.k = "num" /\ ~x.neg /\ x.m # <<>>)

\* a < b on numbers (a comparison with NaN is false)
Lt(a, b) ==
    IF a.k = "NaN" \/ b.k = "NaN" THEN FALSE
    ELSE IF a.k = "Infinity" THEN FALSE
    ELSE IF b.k = "Infinity" THEN TRUE
    ELSE IF a.neg # b.neg THEN a.neg
    ELSE IF a.neg THEN LessMag(b.m, a.m)
    ELSE LessMag(a.m, b.m)

\* the double of a whole number below 2^31
Whole(n) == Finite(FALSE, ShiftLeft(FromNat(n), 64))

\* a + b on finite numbers: the exact sum, rounded
PlusFinite(a, b) ==
    IF a.neg = b.neg THEN Finite(a.neg, Round53(AddMag(a.m, b.m), FALSE))
    ELSE IF LessMag(a.m, b.m) THEN Finite(b.neg, Round53(SubMag(b.m, a.m), FALSE))
    ELSE Finite(a.neg, Round53(SubMag(a.m, b.m), FALSE))

\* a + b on numbers
Plus(a, b) ==
    IF a.k = "num" /\ b.k = "num" THEN PlusFinite(a, b)
    ELSE IF a.k = "Infinity" /\ b.k \in {"num", "Infinity"} THEN Infinity
    ELSE IF b.k = "Infinity" /\ a.k = "num" THEN Infinity
    ELSE NaN

\* a - b on numbers
Minus(a, b) ==
    IF a.k = "num" /\ b.k = "num" THEN PlusFinite(a, Finite(~b.neg, b.m))
    ELSE IF a.k = "Infinity" /\ b.k = "num" THEN Infinity
    ELSE NaN

\* (a / b) * 100 for finite a and b # 0, as [neg, m, e]: the double m * 2^-e. The
\* quotient is taken to 55 bits or more and rounded, then the product is rounded.
Percent(a, b) ==
    LET e == 55 + BitLen(b.m) - BitLen(a.m)
        d == DivMag(ShiftLeft(a.m, e), b.m)
        quotient == Round53(d.q, d.r # <<>>)
    IN  [neg |-> a.neg # b.neg, m |-> Round53(MulSmall(quotient, 100), FALSE), e |-> e]

\* x.toFixed(1) of the double x = m * 2^-e, as the text's value in tenths: the whole
\* number nearest to 10 * x, the larger one of two
toFixed1(x) ==
    LET n == ToNat(ShiftRight(AddMag(MulSmall(x.m, 10), Pow2(x.e - 1)), x.e))
    IN  IF x.neg THEN 0 - n ELSE n

\* x || 0 on numbers: 0 and NaN are falsy
OrZero(x) == IF x.k = "NaN" \/ x.k = "null" \/ x.k = "undefined" \/ (x.k = "num" /\ x.m = <<>>)
             THEN Zero ELSE x

\* 1000000000
Billion == Whole(1000000000)

\* what parseFloat makes of the texts that start with a number
Parsed ==
    [s \in {"1200", "300", "1500", "1000", "5000", "0.01", "0", "-5"} |->
        CASE s = "1200" -> Num(120000)
          [] s = "300"  -> Num(30000)
          [] s = "1500" -> Num(150000)
          [] s = "1000" -> Num(100000)
          [] s = "5000" -> Num(500000)
          [] s = "0.01" -> Num(1)
          [] s = "0"    -> Num(0)
          [] s = "-5"   -> Num(-500)]

\* parseFloat(s) of a text (a number argument is first converted to its text)
parseFloat(s) ==
    IF s \in DOMAIN Parsed THEN Parsed[s]
    ELSE IF s \in {"1e999", "Infinity"} THEN Infinity
    ELSE IF s = "1000000000" THEN Billion
    ELSE NaN

\* parseFloat(x) of a value that already is a number (or null)
parseFloatNum(x) == IF x.k \in {"num", "Infinity"} THEN x ELSE NaN

\* The clock has two instants: that of the first call and a later one.
Instants == {0, 1}

\* new Date().toISOString() at instant t
toISOString(t) == "T" \o ToString(t)

\* ---------------------------------------------------------------- JSON
\* a text too long for the 5 MiB ceiling
HugeText == "<6 MiB of text>"

StrLen(s) == IF s = HugeText THEN 6 * 1024 * 1024 ELSE Len(s)

RECURSIVE Digits(_)
Digits(n) == IF n < 10 THEN 1 ELSE 1 + Digits(n \div 10)

\* the whole number nearest to 100 * |x|
Hundredths(x) ==
    LET scaled == AddMag(MulSmall(x.m, 100), Pow2(63))
    IN  ToNat(DivSmall(Strip(SubSeq(scaled, 4, Len(scaled))), 16).q)

\* length of the JSON text of a finite number; the numbers a record holds come from
\* decimal texts of at most two decimals, and their JSON text is that decimal
DecimalLen(x) ==
    LET a == Hundredths(x)
    IN  (IF x.neg THEN 1 ELSE 0) + Digits(a \div 100)
        + (IF a % 100 = 0 THEN 0 ELSE IF a % 10 = 0 THEN 2 ELSE 3)

\* the lengths of the numbers parseFloat returns, computed once
ParsedLen == [x \in {Parsed[s] : s \in DOMAIN Parsed} |-> DecimalLen(x)]

\* length of the JSON text of a number (NaN and Infinity are written null)
NumLen(x) ==
    IF x.k # "num" THEN 4
    ELSE IF x \in DOMAIN ParsedLen THEN ParsedLen[x]
    ELSE DecimalLen(x)

\* length of "name":"value", (nothing for an undefined property)
PropLen(name, s) == IF s = Absent THEN 0 ELSE Len(name) + StrLen(s) + 6

ExpenseLen(e) ==
    2 + PropLen("id", e.id) + PropLen("description", e.description)
      + (IF e.amount.k = "undefined" THEN 0 ELSE 10 + NumLen(e.amount))
      + PropLen("category", e.category) + PropLen("date", e.date)
      + PropLen("createdAt", e.createdAt) + PropLen("updatedAt", e.updatedAt)

RECURSIVE ExpensesLen(_)
ExpensesLen(es) == IF es = <<>> THEN 0 ELSE ExpenseLen(Head(es)) + ExpensesLen(Tail(es))

\* serialized.length of JSON.stringify(data)
SerializedLength(data) ==
    2 + (IF data.budget.k = "undefined" THEN 0 ELSE 10 + NumLen(data.budget))
      + 14 + ExpensesLen(data.expenses)
      + PropLen("version", data.version) + PropLen("createdAt", data.createdAt)

\* JSON.stringify writes NaN and Infinity as null
StringifyNumber(x) == IF x.k \in {"NaN", "Infinity"} THEN JsonNull ELSE x

StringifyExpense(e) == [e EXCEPT !.amount = StringifyNumber(e.amount)]

\* JSON.parse(JSON.stringify(data)): the document the stored text parses to
Stringify(data) ==
    [data EXCEPT !.budget = StringifyNumber(data.budget),
                 !.expenses = [i \in 1..Len(data.expenses) |-> StringifyExpense(data.expenses[i])]]

\* ---------------------------------------------------------------- state
VARIABLES
    localStorage,   \* the item stored under storageKey 'budgetTrackerData'
    clock,          \* the value new Date() reads
    nextId,         \* number of ids generateId has produced, plus one
    removed,        \* history kept by SpecAddDelete: the ids deleteExpense removed
    last,           \* the call made last and its result
    currentUser,    \* auth.currentUser: the email of the user signed in, or Absent
    authResult,     \* what the AuthManager call made last resolved to
    page,           \* the page in Firebase mode: its script's state and its document
    app             \* the forms of the main app: listeners, pending timers, edit mode

vars == <<localStorage, clock, nextId, removed, last, currentUser, authResult, page, app>>

\* an expense object none of whose properties is set
NoExpense ==
    [id |-> Absent, description |-> Absent, amount |-> Undefined, category |-> Absent,
     date |-> Absent, createdAt |-> Absent, updatedAt |-> Absent]

\* an argument object (of addExpense, updateExpense) none of whose properties is set;
\* undef says the argument itself is undefined
NoInput ==
    [undef |-> FALSE, id |-> Absent, description |-> Absent, amount |-> Absent,
     category |-> Absent, date |-> Absent, createdAt |-> Absent, updatedAt |-> Absent]

\* the item when nothing is stored under the key / when the stored text is not JSON
NoRecord ==
    [obj |-> FALSE, arr |-> FALSE, budget |-> Undefined, expenses |-> <<>>,
     version |-> Absent, createdAt |-> Absent]

NoItem == [present |-> FALSE, parses |-> FALSE, doc |-> NoRecord]

GarbageItem == [present |-> TRUE, parses |-> FALSE, doc |-> NoRecord]

\* ---------------------------------------------------------------- StorageService
getDefaultData(now) ==
    [obj |-> TRUE, arr |-> TRUE, budget |-> Zero, expenses |-> <<>>,
     version |-> "1.0.0", createdAt |-> toISOString(now)]

\* null as an element of the expenses array
NullExpense == [NoExpense EXCEPT !.id = "<null>"]

validExpense(e) ==
    /\ ~(Falsy(e.id) \/ Falsy(e.description) \/ Falsy(e.category) \/ Falsy(e.date))
    /\ ~(~TypeofNumber(e.amount) \/ isNaN(e.amount))

\* validateDataStructure(data) throws a TypeError: the loop reaches a null element and
\* reads expense.id
validateThrows(data) ==
    /\ data.obj
    /\ data.arr
    /\ ~(~TypeofNumber(data.budget) \/ isNaN(data.budget))
    /\ \E i \in 1..Len(data.expenses) :
          /\ data.expenses[i] = NullExpense
          /\ \A j \in 1..(i - 1) : validExpense(data.expenses[j])

\* validateDataStructure(data) returns true
validateDataStructure(data) ==
    /\ data.obj
    /\ data.arr
    /\ ~(~TypeofNumber(data.budget) \/ isNaN(data.budget))
    /\ \A i \in 1..Len(data.expenses) :
          data.expenses[i] # NullExpense /\ validExpense(data.expenses[i])

\* the try block of getData: threw, an exception left it; ret, the value returned
getDataTry(ls, now) ==
    IF ~ls.present THEN [threw |-> FALSE, ret |-> getDefaultData(now)]
    ELSE IF ~ls.parses THEN [threw |-> TRUE, ret |-> NoRecord]
    ELSE IF validateThrows(ls.doc) THEN [threw |-> TRUE, ret |-> NoRecord]
    ELSE IF ~validateDataStructure(ls.doc) THEN [threw |-> FALSE, ret |-> getDefaultData(now)]
    ELSE [threw |-> FALSE, ret |-> ls.doc]

\* getData without its catch block: the exception reaches the caller
getDataUncaught(ls, now) == getDataTry(ls, now).ret

\* getData: the catch block returns the default record
getData(ls, now) ==
    IF getDataTry(ls, now).threw THEN getDefaultData(now) ELSE getDataTry(ls, now).ret

\* the 5MB limit of saveData
StorageLimit == 5 * 1024 * 1024

\* saveData(data) on item ls; full: localStorage.setItem throws QuotaExceededError.
\* The result is the boolean returned and the item afterwards. The catch block returns
\* false for the Error thrown on a record that fails validation, for the TypeError of
\* validateDataStructure, for the size ceiling and for the exception of setItem.
saveData(ls, data, full) ==
    IF ~validateDataStructure(data) THEN [ok |-> FALSE, ls |-> ls]
    ELSE IF SerializedLength(Stringify(data)) > StorageLimit THEN [ok |-> FALSE, ls |-> ls]
    ELSE IF full THEN [ok |-> FALSE, ls |-> ls]
    ELSE [ok |-> TRUE, ls |-> [present |-> TRUE, parses |-> TRUE, doc |-> Stringify(data)]]

\* A JSON text is [parses, doc]: whether JSON.parse accepts it and the value it makes.
\* JSON.stringify(data, null, 2)
TextOf(data) == [parses |-> TRUE, doc |-> Stringify(data)]

\* the item that holds a text
ItemOf(text) == [present |-> TRUE, parses |-> text.parses, doc |-> text.doc]

exportData(ls, now) == TextOf(getData(ls, now))

\* the try block of importData: threw, an exception left it; ok, the value returned
importDataTry(ls, jsonString, full) ==
    IF ~jsonString.parses THEN [threw |-> TRUE, ok |-> FALSE, ls |-> ls]
    ELSE IF validateThrows(jsonString.doc) THEN [threw |-> TRUE, ok |-> FALSE, ls |-> ls]
    ELSE IF ~validateDataStructure(jsonString.doc) THEN [threw |-> TRUE, ok |-> FALSE, ls |-> ls]
    ELSE [threw |-> FALSE, ok |-> saveData(ls, jsonString.doc, full).ok,
          ls |-> saveData(ls, jsonString.doc, full).ls]

\* importData that stores the text as it came
importDataUnchecked(ls, jsonString, full) == [ok |-> TRUE, ls |-> ItemOf(jsonString)]

\* importData: the catch block returns false
importData(ls, jsonString, full) ==
    [ok |-> importDataTry(ls, jsonString, full).ok,
     ls |-> importDataTry(ls, jsonString, full).ls]

\* ---------------------------------------------------------------- BudgetManager
\* reduce((sum, exp) => sum + parseFloat(exp.amount), 0)
RECURSIVE reduceSum(_, _)
reduceSum(es, sum) ==
    IF es = <<>> THEN sum
    ELSE reduceSum(Tail(es), Plus(sum, parseFloatNum(Head(es).amount)))

getBudget(ls, now) == OrZero(getData(ls, now).budget)

\* setBudget that starts from the default record instead of the stored one
setBudgetOnDefault(ls, amount, now, full) ==
    saveData(ls, [getDefaultData(now) EXCEPT !.budget = OrZero(parseFloat(amount))], full)

setBudget(ls, amount, now, full) ==
    LET data == getData(ls, now)
    IN  saveData(ls, [data EXCEPT !.budget = OrZero(parseFloat(amount))], full)

\* getRemainingBudget with the result floored at zero
getRemainingBudgetFloored(ls, now) ==
    LET budget == getBudget(ls, now)
        expenses == getData(ls, now).expenses
        totalExpenses == reduceSum(expenses, Zero)
    IN  IF IsNegative(Minus(budget, totalExpenses)) THEN Zero
        ELSE Minus(budget, totalExpenses)

getRemainingBudget(ls, now) ==
    LET budget == getBudget(ls, now)
        expenses == getData(ls, now).expenses
        totalExpenses == reduceSum(expenses, Zero)
    IN  Minus(budget, totalExpenses)

\* ---------------------------------------------------------------- ExpenseManager
getAllExpenses(ls, now) == getData(ls, now).expenses

getTotalExpenses(ls, now) == reduceSum(getAllExpenses(ls, now), Zero)

generateId(n) == "exp_" \o ToString(n)

\* {...base, ...over} for one text property
Spread(base, over) == IF over # Absent THEN over ELSE base

\* findIndex(exp => exp.id === id), 0 for -1
findIndex(es, id) ==
    IF \E i \in 1..Len(es) : es[i].id = id
    THEN CHOOSE i \in 1..Len(es) : es[i].id = id /\ \A j \in 1..(i - 1) : es[j].id # id
    ELSE 0

\* filter(exp => exp.id !== id)
RECURSIVE filterOut(_, _)
filterOut(es, id) ==
    IF es = <<>> THEN <<>>
    ELSE IF Head(es).id # id THEN <<Head(es)>> \o filterOut(Tail(es), id)
    ELSE filterOut(Tail(es), id)

\* the object addExpense builds
newExpenseOf(expense, id, now) ==
    [id          |-> Spread(id, expense.id),
     description |-> expense.description,
     amount      |-> parseFloat(expense.amount),
     category    |-> expense.category,
     date        |-> expense.date,
     createdAt   |-> toISOString(now),
     updatedAt   |-> expense.updatedAt]

\* the object updateExpense builds
mergedExpenseOf(old, updates, now) ==
    [id          |-> Spread(old.id, updates.id),
     description |-> Spread(old.description, updates.description),
     amount      |-> parseFloat(updates.amount),
     category    |-> Spread(old.category, updates.category),
     date        |-> Spread(old.date, updates.date),
     createdAt   |-> Spread(old.createdAt, updates.createdAt),
     updatedAt   |-> toISOString(now)]

\* Results of the three mutators: ok, the value returned is truthy; ret, the expense
\* returned; saved, what became of the call's saveData ("none" when it made none);
\* threw, a TypeError left the call; ls, the item afterwards.
addExpense(ls, expense, id, now, full) ==
    LET data == getData(ls, now)
        newExpense == newExpenseOf(expense, id, now)
        s == saveData(ls, [data EXCEPT !.expenses = Append(@, newExpense)], full)
    IN  IF expense.undef
        THEN [ok |-> FALSE, ret |-> NoExpense, saved |-> "none", threw |-> TRUE, ls |-> ls]
        ELSE [ok |-> TRUE, ret |-> newExpense,
              saved |-> IF s.ok THEN "ok" ELSE "failed", threw |-> FALSE, ls |-> s.ls]

\* updateExpense that writes the record back before it reports that no expense matched
updateExpenseSavingFirst(ls, id, updates, now, full) ==
    LET data == getData(ls, now)
        index == findIndex(data.expenses, id)
    IN  IF index = 0
        THEN [ok |-> FALSE, ret |-> NoExpense, saved |-> "none", threw |-> FALSE,
              ls |-> saveData(ls, data, full).ls]
        ELSE IF updates.undef
        THEN [ok |-> FALSE, ret |-> NoExpense, saved |-> "none", threw |-> TRUE, ls |-> ls]
        ELSE LET merged == mergedExpenseOf(data.expenses[index], updates, now)
                 s == saveData(ls, [data EXCEPT !.expenses[index] = merged], full)
             IN  [ok |-> TRUE, ret |-> merged,
                  saved |-> IF s.ok THEN "ok" ELSE "failed", threw |-> FALSE, ls |-> s.ls]

updateExpense(ls, id, updates, now, full) ==
    LET data == getData(ls, now)
        index == findIndex(data.expenses, id)
    IN  IF index = 0
        THEN [ok |-> FALSE, ret |-> NoExpense, saved |-> "none", threw |-> FALSE, ls |-> ls]
        ELSE IF updates.undef
        THEN [ok |-> FALSE, ret |-> NoExpense, saved |-> "none", threw |-> TRUE, ls |-> ls]
        ELSE LET merged == mergedExpenseOf(data.expenses[index], updates, now)
                 s == saveData(ls, [data EXCEPT !.expenses[index] = merged], full)
             IN  [ok |-> TRUE, ret |-> merged,
                  saved |-> IF s.ok THEN "ok" ELSE "failed", threw |-> FALSE, ls |-> s.ls]

deleteExpense(ls, id, now, full) ==
    LET data == getData(ls, now)
        initialLength == Len(data.expenses)
        kept == filterOut(data.expenses, id)
        s == saveData(ls, [data EXCEPT !.expenses = kept], full)
    IN  IF Len(kept) < initialLength
        THEN [ok |-> TRUE, ret |-> NoExpense,
              saved |-> IF s.ok THEN "ok" ELSE "failed", threw |-> FALSE, ls |-> s.ls]
        ELSE [ok |-> FALSE, ret |-> NoExpense, saved |-> "none", threw |-> FALSE, ls |-> ls]

\* the expenses of es in category c, in the order of es
RECURSIVE ofCategory(_, _)
ofCategory(es, c) ==
    IF es = <<>> THEN <<>>
    ELSE IF Head(es).category = c THEN <<Head(es)>> \o ofCategory(Tail(es), c)
    ELSE ofCategory(Tail(es), c)

\* A percentage of the statistics is [k, nan, tenths]: k is "text" for the string that
\* toFixed returns and "num" for a number; tenths is its value in tenths, nan says that
\* the text is "NaN".
NumberZero == [k |-> "num", nan |-> FALSE, tenths |-> 0]

\* ((t / total) * 100).toFixed(1) for total > 0
percentageText(t, total) ==
    IF t.k = "num" /\ total.k = "num"
    THEN [k |-> "text", nan |-> FALSE, tenths |-> toFixed1(Percent(t, total))]
    ELSE IF t.k = "num" /\ total.k = "Infinity"
    THEN [k |-> "text", nan |-> FALSE, tenths |-> 0]
    ELSE [k |-> "text", nan |-> TRUE, tenths |-> 0]

\* the object returned: a function on the categories that have an expense
getCategoryStatistics(ls, now) ==
    LET expenses == getAllExpenses(ls, now)
        total == getTotalExpenses(ls, now)
    IN  [c \in {expenses[i].category : i \in 1..Len(expenses)} |->
            [total      |-> reduceSum(ofCategory(expenses, c), Zero),
             count      |-> Len(ofCategory(expenses, c)),
             percentage |-> IF IsPositive(total)
                            THEN percentageText(reduceSum(ofCategory(expenses, c), Zero), total)
                            ELSE NumberZero]]

\* -------- dates
\* the date texts that new Date(s) can read, as days from 2026-01-01
Dates ==
    [s \in {"2026-01-10", "2026-01-15", "2026-01-20"} |->
        CASE s = "2026-01-10" -> 9
          [] s = "2026-01-15" -> 14
          [] s = "2026-01-20" -> 19]

\* new Date(s): midnight UTC of the day the text names, or an Invalid Date
newDate(s) ==
    IF s \in DOMAIN Dates THEN [valid |-> TRUE, day |-> Dates[s]]
    ELSE [valid |-> FALSE, day |-> 0]

\* the sign of new Date(b.date) - new Date(a.date); the difference is NaN when a date
\* is invalid, and sort takes NaN for +0
compareFn(a, b) ==
    LET x == newDate(a.date)
        y == newDate(b.date)
    IN  IF ~x.valid \/ ~y.valid THEN 0
        ELSE IF y.day > x.day THEN 1
        ELSE IF y.day < x.day THEN 0 - 1
        ELSE 0

Orders(n) == {p \in [1..n -> 1..n] : \A i, j \in 1..n : p[i] = p[j] => i = j}

\* compareFn is a consistent comparator on es: comparing equal is transitive
consistentComparator(es) ==
    \A i, j, k \in 1..Len(es) :
        (compareFn(es[i], es[j]) = 0 /\ compareFn(es[j], es[k]) = 0)
            => compareFn(es[i], es[k]) = 0

\* p puts es in the order of compareFn, equal elements in their order in es
stableOrder(es, p) ==
    \A i, j \in 1..Len(es) :
        i < j => \/ compareFn(es[p[i]], es[p[j]]) < 0
                 \/ compareFn(es[p[i]], es[p[j]]) = 0 /\ p[i] < p[j]

\* the arrays es.sort(compareFn) can give: the stable order, or any order (the order
\* is implementation-defined) when the comparator is not consistent
sort(es) ==
    { [i \in 1..Len(es) |-> es[p[i]]] :
        p \in {q \in Orders(Len(es)) : ~consistentComparator(es) \/ stableOrder(es, q)} }

\* s.slice(0, limit) for a limit >= 0
slice(s, limit) == SubSeq(s, 1, IF limit < Len(s) THEN limit ELSE Len(s))

\* the arrays getRecentExpenses(limit) can return
getRecentExpenses(ls, now, limit) == {slice(s, limit) : s \in sort(getAllExpenses(ls, now))}

\* new Date() at instant t, in hours from 2026-01-01T00:00Z: 08:00 on the 15th, and
\* the same hour a day later
HoursPerDay == 24

Today(t) == (14 + t) * HoursPerDay + 8

\* Math.ceil(x / d) on whole numbers
ceil(x, d) == ((x - (x % d)) \div d) + (IF x % d = 0 THEN 0 ELSE 1)

\* the earliest of the days ds
minDay(ds) == CHOOSE d \in ds : \A other \in ds : d <= other

\* a / n for a whole number n >= 1, as [k, neg, m, e]: the double m * 2^-e
Quotient(a, n) ==
    IF a.k = "num"
    THEN LET d == DivSmall(<<0>> \o a.m, n)
         IN  [k |-> "num", neg |-> a.neg, m |-> Round53(d.q, d.r # 0), e |-> 84]
    ELSE [k |-> a.k, neg |-> FALSE, m |-> <<>>, e |-> 84]

\* Math.max(1, Math.ceil((today - firstExpenseDate) / (1000 * 60 * 60 * 24))): nan when
\* a date of es is invalid, for Math.min, the Date made of it, the difference, its
\* ceiling and Math.max then all give NaN
daysDiff(es, now) ==
    LET dates == {newDate(es[i].date) : i \in 1..Len(es)}
        firstExpenseDate == minDay({d.day : d \in dates}) * HoursPerDay
        days == ceil(Today(now) - firstExpenseDate, HoursPerDay)
    IN  IF \E d \in dates : ~d.valid THEN [nan |-> TRUE, n |-> 0]
        ELSE [nan |-> FALSE, n |-> IF days > 1 THEN days ELSE 1]

getAverageDailySpending(ls, now) ==
    LET expenses == getAllExpenses(ls, now)
    IN  IF Len(expenses) = 0 THEN Quotient(Zero, 1)
        ELSE IF daysDiff(expenses, now).nan THEN Quotient(NaN, 1)
        ELSE Quotient(getTotalExpenses(ls, now), daysDiff(expenses, now).n)

\* getExpensesByCategory(category)
getExpensesByCategory(ls, now, category) ==
    IF category = "all" THEN getAllExpenses(ls, now)
    ELSE ofCategory(getAllExpenses(ls, now), category)

\* filter(expense => expenseDate >= startDate && expenseDate <= endDate), the two
\* dates in days; a comparison with an Invalid Date is false
RECURSIVE inRange(_, _, _)
inRange(es, startDate, endDate) ==
    IF es = <<>> THEN <<>>
    ELSE LET expenseDate == newDate(Head(es).date)
         IN  IF expenseDate.valid /\ expenseDate.day >= startDate
                                  /\ expenseDate.day <= endDate
             THEN <<Head(es)>> \o inRange(Tail(es), startDate, endDate)
             ELSE inRange(Tail(es), startDate, endDate)

getExpensesByDateRange(ls, now, startDate, endDate) ==
    inRange(getAllExpenses(ls, now), startDate, endDate)

\* the arrays App.filterExpenses() can render
filterExpenses(ls, now, currentFilter) == sort(getExpensesByCategory(ls, now, currentFilter))

\* the query and render operations
Queries ==
    {"getAllExpenses", "getExpensesByCategory", "getRecentExpenses",
     "getExpensesByDateRange", "getCategoryStatistics", "getTotalExpenses", "getBudget",
     "getRemainingBudget", "exportData", "filterExpenses", "updateUI"}

\* the queries that sort the array they got
Sorting == {"getRecentExpenses", "filterExpenses", "updateUI"}

\* a storage that hands out the array it keeps: sort() then reorders what is stored
afterQueryAliased(ls, now, query) ==
    IF query \in Sorting /\ ls.present /\ ls.parses /\ getData(ls, now) = ls.doc
    THEN [ls EXCEPT !.doc.expenses = CHOOSE s \in sort(ls.doc.expenses) : TRUE]
    ELSE ls

\* the item after a query: each query gets its data from getData(), which reads the
\* item and returns what JSON.parse made of it, or the default record, and calls
\* neither setItem nor removeItem; sort() works on that object
afterQuery(ls, now, query) == ls

\* ---------------------------------------------------------------- AuthManager
\* What a call resolves to is [op, type, value, success, user, error, code]: type says
\* whether it is an object or a boolean; value is the boolean; success, user and error
\* are the object's properties, Absent for a property the object does not carry. code
\* is no part of the value: it keeps the code the provider rejected the call with.
NoResult ==
    [op |-> "none", type |-> "none", value |-> FALSE, success |-> FALSE,
     user |-> Absent, error |-> Absent, code |-> Absent]

ObjectResult(success, user, error) ==
    [NoResult EXCEPT !.type = "object", !.success = success, !.user = user, !.error = error]

BooleanResult(value) == [NoResult EXCEPT !.type = "boolean", !.value = value]

errorMessages ==
    [c \in {"auth/email-already-in-use", "auth/wrong-password",
            "auth/network-request-failed", "auth/popup-closed-by-user"} |->
        CASE c = "auth/email-already-in-use" ->
                 "This email is already registered. Please sign in instead."
          [] c = "auth/wrong-password" -> "Incorrect password. Please try again."
          [] c = "auth/network-request-failed" ->
                 "Network error. Please check your connection."
          [] c = "auth/popup-closed-by-user" -> "Sign-in cancelled."]

getErrorMessage(errorCode) ==
    IF errorCode \in DOMAIN errorMessages THEN errorMessages[errorCode]
    ELSE "An error occurred. Please try again."

\* An outcome is what the awaited provider call did: it resolved with a credential of
\* user, or rejected with an error of code.
signUp(outcome) ==
    IF outcome.resolved THEN ObjectResult(TRUE, outcome.user, Absent)
    ELSE ObjectResult(FALSE, Absent, getErrorMessage(outcome.code))

signIn(outcome) ==
    IF outcome.resolved THEN ObjectResult(TRUE, outcome.user, Absent)
    ELSE ObjectResult(FALSE, Absent, getErrorMessage(outcome.code))

signInWithGoogle(outcome) ==
    IF outcome.resolved THEN ObjectResult(TRUE, outcome.user, Absent)
    ELSE IF outcome.code = "auth/popup-closed-by-user"
    THEN ObjectResult(FALSE, Absent, "Sign-in cancelled")
    ELSE ObjectResult(FALSE, Absent, getErrorMessage(outcome.code))

signOut(outcome) == BooleanResult(outcome.resolved)

resetPassword(outcome) ==
    IF outcome.resolved THEN ObjectResult(TRUE, Absent, Absent)
    ELSE ObjectResult(FALSE, Absent, getErrorMessage(outcome.code))

\* ---------------------------------------------------------------- UIManager and App
\* value.trim() of the texts a field holds
trim(s) ==
    CASE s = "  " -> ""
      [] s = " lunch " -> "lunch"
      [] OTHER -> s

\* the rules object of validateField: min and max are Undefined when not given (no
\* caller of the forms passes a pattern)
Rules(required, min, max) == [required |-> required, min |-> min, max |-> max]

\* validateField without the check of the minimum
validateFieldNoMin(fieldValue, rules) ==
    LET value == trim(fieldValue)
    IN  IF rules.required /\ value = "" THEN FALSE
        ELSE IF rules.max.k # "undefined" /\ Lt(rules.max, parseFloat(value)) THEN FALSE
        ELSE TRUE

validateField(fieldValue, rules) ==
    LET value == trim(fieldValue)
    IN  IF rules.required /\ value = "" THEN FALSE
        ELSE IF rules.min.k # "undefined" /\ Lt(parseFloat(value), rules.min) THEN FALSE
        ELSE IF rules.max.k # "undefined" /\ Lt(rules.max, parseFloat(value)) THEN FALSE
        ELSE TRUE

\* app holds what the forms of the main app keep between events:
\*   listeners  one entry for each submit listener registered on the forms by
\*              setupEventListeners, naming the storage of the managers of its App:
\*              "local" (StorageService) or "cloud" (FirebaseStorageService)
\*   timers     the callbacks passed to setTimeout(..., 300) that have not run yet, in
\*              the order they were set, each with what its closure captured
\*   editId     submitBtn.dataset.editId, Absent when the form is not in edit mode
\*   step       what the last event did: valid, the fields passed validation;
\*              scheduled, how many timers the event set; call, the manager operation
\*              a timer or a click called
\* the rules handleBudgetSubmit and handleExpenseSubmit pass to validateField
BudgetRules == Rules(TRUE, Zero, Whole(999999999))

RequiredRule == Rules(TRUE, Undefined, Undefined)

AmountRules == Rules(TRUE, Num(1), Whole(999999999))

NoAppStep == [op |-> "none", valid |-> FALSE, scheduled |-> 0, call |-> "none"]

NoApp == [listeners |-> <<>>, timers |-> <<>>, editId |-> Absent, step |-> NoAppStep]

\* new App() and init(): setupEventListeners registers the submit listeners
init(a, storage) == [a EXCEPT !.listeners = Append(@, storage)]

NoTimer ==
    [kind |-> "none", storage |-> "none", amount |-> Absent, formData |-> NoInput,
     editId |-> Absent]

\* handleBudgetSubmit() up to setTimeout, for the App whose managers use storage
handleBudgetSubmit(a, amountField, storage) ==
    IF ~validateField(amountField, BudgetRules) THEN a
    ELSE [a EXCEPT !.timers = Append(@, [NoTimer EXCEPT !.kind = "budget",
                                                         !.storage = storage,
                                                         !.amount = amountField])]

\* the fields of the expense form pass validation
fieldsValid(fields) ==
    LET isDescriptionValid == validateField(fields.description, RequiredRule)
        isAmountValid == validateField(fields.amount, AmountRules)
        isCategoryValid == validateField(fields.category, RequiredRule)
        isDateValid == validateField(fields.date, RequiredRule)
    IN  isDescriptionValid /\ isAmountValid /\ isCategoryValid /\ isDateValid

\* handleExpenseSubmit() up to setTimeout, for the App whose managers use storage
handleExpenseSubmit(a, fields, storage) ==
    LET formData == [NoInput EXCEPT !.description = trim(fields.description),
                                    !.amount = fields.amount,
                                    !.category = fields.category,
                                    !.date = fields.date]
    IN  IF ~fieldsValid(fields) THEN a
        ELSE [a EXCEPT !.timers = Append(@, [NoTimer EXCEPT !.kind = "expense",
                                                             !.storage = storage,
                                                             !.formData = formData,
                                                             !.editId = a.editId])]

\* a submit event of the budget form / the expense form: the listeners 1..i run in the
\* order they were registered
RECURSIVE submitBudget(_, _, _)
submitBudget(a, amountField, i) ==
    IF i = 0 THEN a
    ELSE handleBudgetSubmit(submitBudget(a, amountField, i - 1), amountField, a.listeners[i])

RECURSIVE submitExpense(_, _, _)
submitExpense(a, fields, i) ==
    IF i = 0 THEN a
    ELSE handleExpenseSubmit(submitExpense(a, fields, i - 1), fields, a.listeners[i])

\* the callback of a timer, on the item ls: the manager operation it calls, the item
\* afterwards, and whether it resets the expense form. A call on the
\* FirebaseStorageService leaves the item alone.
timeout(ls, timer, id, now, full) ==
    LET call == IF timer.kind = "budget" THEN "setBudget"
                ELSE IF timer.editId # Absent THEN "updateExpense"
                ELSE "addExpense"
        after == IF timer.storage # "local" THEN ls
                 ELSE IF call = "setBudget" THEN setBudget(ls, timer.amount, now, full).ls
                 ELSE IF call = "updateExpense"
                 THEN updateExpense(ls, timer.editId, timer.formData, now, full).ls
                 ELSE addExpense(ls, timer.formData, id, now, full).ls
    IN  [call |-> call, ls |-> after, reset |-> timer.kind = "expense"]

\* ---------------------------------------------------------------- the page in Firebase mode
\* page holds the state of the page's script and what the script does to the document:
\*   firebaseApp    the variable firebaseApp: whether an App has been assigned to it,
\*                  and (of) the number of the sign-in whose run built that App and
\*                  its FirebaseStorageService and managers
\*   signIns        how many notifications of a signed-in user the page has had
\*   runs           the runs of initializeApp suspended at the await of the migration,
\*                  each with the number of its sign-in and the item it read
\*   apps           how many times initializeApp has called new App()
\*   subscriptions  how many times it has called subscribeToChanges
\*   view           the container that is not hidden: "auth" or "app"
\*   disabled       the buttons of the authentication form that are disabled
\*   migrated       the items whose migration has resolved (kept across reloads)
\*   step           what the last step of the page did
NoFirebaseApp == [built |-> FALSE, of |-> 0]

\* step: op names the step and sign the sign-in it belongs to; data is the item that
\* initializeApp read; asked and accepted tell of the confirmation prompt; called,
\* that migrateFromLocalStorage was called; resolved, that its promise resolved;
\* threw, that the inner try block was left by an exception; built, that the step
\* went on to build the App
NoStep ==
    [op |-> "none", sign |-> 0, data |-> NoItem, asked |-> FALSE, accepted |-> FALSE,
     called |-> FALSE, resolved |-> FALSE, threw |-> FALSE, built |-> FALSE]

NoPage ==
    [firebaseApp |-> NoFirebaseApp, signIns |-> 0, runs |-> {}, apps |-> 0,
     subscriptions |-> 0, view |-> "auth", disabled |-> {}, migrated |-> {},
     step |-> NoStep]

\* the item whose text is '{"budget":0,"expenses":[]}'
EmptyRecordItem ==
    [present |-> TRUE, parses |-> TRUE,
     doc |-> [NoRecord EXCEPT !.obj = TRUE, !.arr = TRUE, !.budget = Zero]]

\* the end of initializeApp: the managers, the App, init() and the subscription
buildApp(pg, sign) ==
    [pg EXCEPT !.firebaseApp = [built |-> TRUE, of |-> sign],
               !.apps = @ + 1,
               !.subscriptions = @ + 1]

\* initializeApp() up to its await, or to its end when it does not await: the result
\* is the page and the item afterwards. sign numbers the sign-in; shouldMigrate is the
\* answer to the prompt, when the prompt is shown.
initializeApp(pg, ls, sign, shouldMigrate) ==
    LET localData == ls
        asked == localData.present /\ localData # EmptyRecordItem
        step == [NoStep EXCEPT !.op = "initializeApp", !.sign = sign, !.data = localData,
                               !.asked = asked, !.accepted = asked /\ shouldMigrate]
    IN  IF pg.firebaseApp.built
        THEN [page |-> [pg EXCEPT !.step = [NoStep EXCEPT !.op = "return", !.sign = sign]],
              ls |-> ls]
        ELSE IF asked /\ shouldMigrate /\ localData.parses
        THEN [page |-> [pg EXCEPT !.runs = @ \cup {[sign |-> sign, data |-> localData]},
                                  !.step = [step EXCEPT !.called = TRUE]],
              ls |-> ls]
        ELSE [page |-> [buildApp(pg, sign) EXCEPT
                            !.step = [step EXCEPT !.threw = asked /\ shouldMigrate,
                                                  !.built = TRUE]],
              ls |-> ls]

\* initializeApp() that leaves the local record in place after the migration
resumeInitializeAppKeeping(pg, ls, run, resolved) ==
    LET left == [pg EXCEPT !.runs = @ \ {run},
                           !.migrated = IF resolved THEN @ \cup {run.data} ELSE @]
        step == [NoStep EXCEPT !.op = "resume", !.sign = run.sign, !.data = run.data,
                               !.asked = TRUE, !.accepted = TRUE, !.resolved = resolved,
                               !.threw = ~resolved, !.built = TRUE]
    IN  [page |-> [buildApp(left, run.sign) EXCEPT !.step = step], ls |-> ls]

\* initializeApp() that clears the local record whether the migration resolved or not
resumeInitializeAppClearing(pg, ls, run, resolved) ==
    LET left == [pg EXCEPT !.runs = @ \ {run},
                           !.migrated = IF resolved THEN @ \cup {run.data} ELSE @]
        step == [NoStep EXCEPT !.op = "resume", !.sign = run.sign, !.data = run.data,
                               !.asked = TRUE, !.accepted = TRUE, !.resolved = resolved,
                               !.threw = ~resolved, !.built = TRUE]
    IN  [page |-> [buildApp(left, run.sign) EXCEPT !.step = step], ls |-> NoItem]

\* initializeApp() from its await to its end, for the suspended run: the promise of
\* migrateFromLocalStorage resolved, or it rejected and the catch block logs the error
resumeInitializeApp(pg, ls, run, resolved) ==
    LET left == [pg EXCEPT !.runs = @ \ {run},
                           !.migrated = IF resolved THEN @ \cup {run.data} ELSE @]
        step == [NoStep EXCEPT !.op = "resume", !.sign = run.sign, !.data = run.data,
                               !.asked = TRUE, !.accepted = TRUE, !.resolved = resolved,
                               !.threw = ~resolved, !.built = TRUE]
    IN  [page |-> [buildApp(left, run.sign) EXCEPT !.step = step],
         ls |-> IF resolved THEN NoItem ELSE ls]

\* updateUI(user), the callback registered with onAuthStateChanged
updateUI(pg, ls, user, shouldMigrate) ==
    IF user # Absent
    THEN initializeApp([pg EXCEPT !.view = "app", !.signIns = @ + 1], ls,
                       pg.signIns + 1, shouldMigrate)
    ELSE [page |-> [pg EXCEPT !.view = "auth",
                              !.step = [NoStep EXCEPT !.op = "signedOut"]],
          ls |-> ls]

\* a submit or click handler of the authentication form, for a call that resolved to
\* result: the button is disabled before the call and enabled again on failure only
authHandler(pg, button, result) ==
    IF ~result.success THEN [pg EXCEPT !.disabled = @ \ {button}]
    ELSE [pg EXCEPT !.disabled = @ \cup {button}]

\* ---------------------------------------------------------------- inputs
InputA == [NoInput EXCEPT !.description = "lunch", !.amount = "1200",
                          !.category = "food", !.date = "2026-01-10"]

InputB == [NoInput EXCEPT !.description = "bus", !.amount = "300",
                          !.category = "transport", !.date = "2026-01-20"]

InputC == [NoInput EXCEPT !.description = "gum", !.amount = "0.01",
                          !.category = "food", !.date = "2026-01-20"]

\* the inputs a caller passes that the expense form would accept
ValidInputs == {InputA, InputB, InputC}

\* arbitrary input objects: a non-numeric amount, no description, an id of the
\* caller's, a description of 6 MiB, undefined
Inputs ==
    {InputA, InputB} \cup
    { [InputB EXCEPT !.amount = "abc"],
      [InputB EXCEPT !.description = Absent],
      [InputB EXCEPT !.id = generateId(1)],
      [InputB EXCEPT !.description = HugeText],
      [NoInput EXCEPT !.undef = TRUE] }

UpdateAll == [NoInput EXCEPT !.description = "bus", !.amount = "300",
                             !.category = "transport", !.date = "2026-01-20"]

\* changes objects: all fields, only a description, a negative amount, undefined
Updates ==
    { UpdateAll,
      [NoInput EXCEPT !.description = "dinner"],
      [NoInput EXCEPT !.amount = "-5"],
      [NoInput EXCEPT !.undef = TRUE] }

\* an input and a changes object that carry timestamps of the caller's
CallerStamp == "1999-01-01T00:00:00.000Z"

StampedInput == [InputB EXCEPT !.createdAt = CallerStamp, !.updatedAt = CallerStamp]

StampedUpdate == [UpdateAll EXCEPT !.createdAt = CallerStamp, !.updatedAt = CallerStamp]

\* inputs dated before, on and after the day of the clock, and one whose date is no date
InputToday == [InputC EXCEPT !.date = "2026-01-15"]

InputUndated == [InputC EXCEPT !.date = "soon"]

DatedInputs == {InputA, InputB, InputToday, InputUndated}

\* the limits passed to getRecentExpenses
Limits == 0..3

Ids == {generateId(i) : i \in 1..MaxIds}

BudgetInputs == {"1000", "-5", "abc"}

ExpenseE ==
    [id |-> "e", description |-> "rent", amount |-> Num(150000), category |-> "bills",
     date |-> "2026-01-10", createdAt |-> toISOString(0), updatedAt |-> Absent]

ExpenseF ==
    [id |-> "f", description |-> "book", amount |-> Num(1), category |-> "education",
     date |-> "2026-01-20", createdAt |-> toISOString(0), updatedAt |-> toISOString(1)]

RecordR == [getDefaultData(0) EXCEPT !.budget = Num(100000), !.expenses = <<ExpenseE>>]

\* records that pass validateDataStructure and hold only finite numbers
PlainRecords ==
    { [getDefaultData(0) EXCEPT !.budget = b, !.expenses = es] :
        b \in {Num(0), Num(100000), Num(500000), Num(-500)},
        es \in {<<>>, <<ExpenseE>>, <<ExpenseF>>, <<ExpenseE, ExpenseF>>, <<ExpenseF, ExpenseE>>,
                <<ExpenseE, ExpenseE>>} }

\* records handed to saveData: the plain ones, an amount that is not finite, a budget
\* that is NaN, an expense without description, 6 MiB of description, null
Records ==
    PlainRecords \cup
    { [RecordR EXCEPT !.expenses[1].amount = Infinity],
      [RecordR EXCEPT !.budget = NaN],
      [RecordR EXCEPT !.expenses[1].description = ""],
      [RecordR EXCEPT !.expenses[1].description = HugeText],
      NoRecord }

\* values JSON.parse makes that are no valid record: null, an object whose expenses is
\* no array, a budget that is null, an array that holds null (first, or after a valid
\* or an invalid expense), an expense whose amount is null
BadDocs ==
    { NoRecord,
      [RecordR EXCEPT !.arr = FALSE, !.expenses = <<>>],
      [RecordR EXCEPT !.budget = JsonNull],
      [RecordR EXCEPT !.expenses = <<NullExpense>>],
      [RecordR EXCEPT !.expenses = <<ExpenseE, NullExpense>>],
      [RecordR EXCEPT !.expenses = <<[ExpenseE EXCEPT !.description = ""], NullExpense>>],
      [RecordR EXCEPT !.expenses[1].amount = JsonNull] }

\* texts: no JSON; JSON of no valid record; JSON of a record (RecordR, one of the
\* budget -5, one of two expenses); a number out of range, which JSON.parse reads as
\* Infinity; a record of more than 5 MiB
Texts ==
    { [parses |-> FALSE, doc |-> NoRecord] }
    \cup { [parses |-> TRUE, doc |-> d] : d \in BadDocs }
    \cup { TextOf(RecordR),
           TextOf([RecordR EXCEPT !.budget = Num(-500), !.expenses = <<>>]),
           TextOf([RecordR EXCEPT !.expenses = <<ExpenseF, ExpenseE>>]),
           [parses |-> TRUE, doc |-> [RecordR EXCEPT !.budget = Infinity]],
           [parses |-> TRUE, doc |-> [RecordR EXCEPT !.expenses[1].description = HugeText]] }

\* what the storage key may hold when the page loads: nothing, or any text the
\* browser's quota has room for
Contents == {NoItem} \cup {ItemOf(t) : t \in {u \in Texts : SerializedLength(u.doc) <= StorageLimit}}

\* the accounts, the account of the Google popup, and the codes the provider rejects
\* with, two of them not in the table of messages
Emails == {"ann@example.com", "bob@example.com", "cy@example.com"}

GoogleEmail == "dee@gmail.com"

Codes ==
    {"auth/email-already-in-use", "auth/wrong-password", "auth/network-request-failed",
     "auth/popup-closed-by-user", "auth/internal-error", "auth/quota-exceeded"}

\* what the provider can do with a call on behalf of user
Outcomes(user) ==
    { [resolved |-> TRUE, user |-> user, code |-> Absent] }
    \cup { [resolved |-> FALSE, user |-> Absent, code |-> c] : c \in Codes }

\* what the key may hold when the page loads in Firebase mode: nothing, a text that is
\* not JSON, the text '{"budget":0,"expenses":[]}', a record with an expense
LocalItems == {NoItem, GarbageItem, EmptyRecordItem, ItemOf(TextOf(RecordR))}

\* what the fields of the expense form may hold at a submit event: the form filled in,
\* with one field at a time holding each of its other values, and the form left empty;
\* then what the budget field may hold
FilledFields ==
    [description |-> "lunch", amount |-> "0.01", category |-> "food", date |-> "2026-01-10"]

Fields ==
    {[FilledFields EXCEPT !.description = d] : d \in {"lunch", " lunch ", "  ", ""}}
    \cup {[FilledFields EXCEPT !.amount = a] : a \in {"0.01", "0", "abc", "", "1000000000"}}
    \cup {[FilledFields EXCEPT !.category = ""], [FilledFields EXCEPT !.date = ""]}
    \cup {[description |-> "", amount |-> "", category |-> "", date |-> ""]}

BudgetFields == {"5000", "-5", ""}

\* the id an edit or delete button may carry: that of the first expense the form adds
\* (the expense of RecordR stays in the record, beside what the steps change)
ButtonIds == {generateId(1)}

\* ---------------------------------------------------------------- actions
\* last: the call made last (op), whether the value it returned is truthy (ok), what
\* became of its saveData (saved) and whether an exception left it (threw)
NoCall == [op |-> "none", ok |-> FALSE, saved |-> "none", threw |-> FALSE]

Init ==
    /\ localStorage \in {NoItem, GarbageItem}
    /\ clock = 0
    /\ nextId = 1
    /\ removed = {}
    /\ last = NoCall
    /\ currentUser = Absent
    /\ authResult = NoResult
    /\ page = NoPage
    /\ app = NoApp

AddExpense(expense, full) ==
    /\ nextId <= MaxIds
    /\ \E r \in {addExpense(localStorage, expense, generateId(nextId), clock, full)} :
           /\ localStorage' = r.ls
           /\ last' = [op |-> "addExpense", ok |-> r.ok, saved |-> r.saved, threw |-> r.threw]
    /\ nextId' = nextId + 1
    /\ UNCHANGED <<clock, currentUser, authResult, page, app>>

UpdateExpense(id, updates, full) ==
    /\ \E r \in {updateExpense(localStorage, id, updates, clock, full)} :
           /\ localStorage' = r.ls
           /\ last' = [op |-> "updateExpense", ok |-> r.ok, saved |-> r.saved,
                       threw |-> r.threw]
    /\ UNCHANGED <<clock, nextId, currentUser, authResult, page, app>>

DeleteExpense(id, full) ==
    /\ \E r \in {deleteExpense(localStorage, id, clock, full)} :
           /\ localStorage' = r.ls
           /\ last' = [op |-> "deleteExpense", ok |-> r.ok, saved |-> r.saved,
                       threw |-> r.threw]
    /\ UNCHANGED <<clock, nextId, currentUser, authResult, page, app>>

SetBudget(amount, full) ==
    /\ \E r \in {setBudget(localStorage, amount, clock, full)} :
           /\ localStorage' = r.ls
           /\ last' = [op |-> "setBudget", ok |-> r.ok,
                       saved |-> IF r.ok THEN "ok" ELSE "failed", threw |-> FALSE]
    /\ UNCHANGED <<clock, nextId, currentUser, authResult, page, app>>

SaveData(data, full) ==
    /\ \E r \in {saveData(localStorage, data, full)} :
           /\ localStorage' = r.ls
           /\ last' = [op |-> "saveData", ok |-> r.ok,
                       saved |-> IF r.ok THEN "ok" ELSE "failed", threw |-> FALSE]
    /\ UNCHANGED <<clock, nextId, currentUser, authResult, page, app>>

\* time passes between two calls
Tick ==
    /\ clock + 1 \in Instants
    /\ clock' = clock + 1
    /\ UNCHANGED <<localStorage, nextId, last, currentUser, authResult, page, app>>

\* the managers, called with arbitrary arguments within one instant of the clock, on
\* a store that may refuse a write
Next ==
    \/ \E expense \in Inputs, full \in BOOLEAN :
          AddExpense(expense, full) /\ UNCHANGED removed
    \/ \E id \in Ids, updates \in Updates, full \in BOOLEAN :
          UpdateExpense(id, updates, full) /\ UNCHANGED removed
    \/ \E id \in Ids, full \in BOOLEAN :
          DeleteExpense(id, full) /\ UNCHANGED removed
    \/ \E amount \in BudgetInputs, full \in BOOLEAN :
          SetBudget(amount, full) /\ UNCHANGED removed

Spec == Init /\ [][Next]_vars

\* addExpense with the inputs the form accepts, and deleteExpense, as time passes, on a
\* store that takes every write; removed collects the ids whose deleteExpense returned true
NextAddDelete ==
    \/ (\E expense \in ValidInputs : AddExpense(expense, FALSE)) /\ UNCHANGED removed
    \/ \E id \in Ids :
          /\ DeleteExpense(id, FALSE)
          /\ removed' = IF last'.ok THEN removed \cup {id} ELSE removed
    \/ Tick /\ UNCHANGED removed

SpecAddDelete == Init /\ [][NextAddDelete]_vars

\* addExpense and updateExpense over time, with and without timestamps in the argument
NextTimestamps ==
    \/ (\E expense \in {InputA, StampedInput} : AddExpense(expense, FALSE))
          /\ UNCHANGED removed
    \/ (\E id \in Ids, updates \in {UpdateAll, StampedUpdate} :
            UpdateExpense(id, updates, FALSE))
          /\ UNCHANGED removed
    \/ Tick /\ UNCHANGED removed

SpecTimestamps == Init /\ [][NextTimestamps]_vars

\* the queries: the page loads with nothing stored or with one expense stored, and
\* expenses of any date are added over time
InitQueries ==
    /\ localStorage \in {NoItem, ItemOf(TextOf(RecordR))}
    /\ clock = 0
    /\ nextId = 1
    /\ removed = {}
    /\ last = NoCall
    /\ currentUser = Absent
    /\ authResult = NoResult
    /\ page = NoPage
    /\ app = NoApp

NextQueries ==
    \/ (\E expense \in DatedInputs : AddExpense(expense, FALSE)) /\ UNCHANGED removed
    \/ Tick /\ UNCHANGED removed

SpecQueries == InitQueries /\ [][NextQueries]_vars

\* the StorageService alone, handed arbitrary records
NextStorage ==
    \/ \E data \in Records, full \in BOOLEAN : SaveData(data, full) /\ UNCHANGED removed
    \/ Tick /\ UNCHANGED removed

SpecStorage == Init /\ [][NextStorage]_vars

\* the StorageService on a key that holds any content when the page loads
InitStored ==
    /\ localStorage \in Contents
    /\ clock = 0
    /\ nextId = 1
    /\ removed = {}
    /\ last = NoCall
    /\ currentUser = Absent
    /\ authResult = NoResult
    /\ page = NoPage
    /\ app = NoApp

ImportData(jsonString, full) ==
    /\ \E r \in {importData(localStorage, jsonString, full)} :
           /\ localStorage' = r.ls
           /\ last' = [op |-> "importData", ok |-> r.ok,
                       saved |-> IF r.ok THEN "ok" ELSE "failed", threw |-> FALSE]
    /\ UNCHANGED <<clock, nextId, currentUser, authResult, page, app>>

NextStored ==
    \/ \E jsonString \in Texts, full \in BOOLEAN :
          ImportData(jsonString, full) /\ UNCHANGED removed
    \/ \E data \in Records, full \in BOOLEAN : SaveData(data, full) /\ UNCHANGED removed
    \/ Tick /\ UNCHANGED removed

SpecStored == InitStored /\ [][NextStored]_vars

\* the AuthManager: each call awaits the provider, which resolves or rejects
SignUp(email, outcome) ==
    /\ authResult' = [signUp(outcome) EXCEPT !.op = "signUp", !.code = outcome.code]
    /\ currentUser' = IF outcome.resolved THEN email ELSE currentUser
    /\ UNCHANGED <<localStorage, clock, nextId, removed, last, page, app>>

SignIn(email, outcome) ==
    /\ authResult' = [signIn(outcome) EXCEPT !.op = "signIn", !.code = outcome.code]
    /\ currentUser' = IF outcome.resolved THEN email ELSE currentUser
    /\ UNCHANGED <<localStorage, clock, nextId, removed, last, page, app>>

SignInWithGoogle(outcome) ==
    /\ authResult' = [signInWithGoogle(outcome) EXCEPT !.op = "signInWithGoogle", !.code = outcome.code]
    /\ currentUser' = IF outcome.resolved THEN GoogleEmail ELSE currentUser
    /\ UNCHANGED <<localStorage, clock, nextId, removed, last, page, app>>

SignOut(outcome) ==
    /\ authResult' = [signOut(outcome) EXCEPT !.op = "signOut", !.code = outcome.code]
    /\ currentUser' = IF outcome.resolved THEN Absent ELSE currentUser
    /\ UNCHANGED <<localStorage, clock, nextId, removed, last, page, app>>

ResetPassword(outcome) ==
    /\ authResult' = [resetPassword(outcome) EXCEPT !.op = "resetPassword", !.code = outcome.code]
    /\ UNCHANGED <<localStorage, clock, nextId, removed, last, currentUser, page, app>>

InitAuth ==
    /\ localStorage = NoItem
    /\ clock = 0
    /\ nextId = 1
    /\ removed = {}
    /\ last = NoCall
    /\ currentUser = Absent
    /\ authResult = NoResult
    /\ page = NoPage
    /\ app = NoApp

NextAuth ==
    \/ \E email \in Emails : \E outcome \in Outcomes(email) : SignUp(email, outcome)
    \/ \E email \in Emails : \E outcome \in Outcomes(email) : SignIn(email, outcome)
    \/ \E outcome \in Outcomes(GoogleEmail) : SignInWithGoogle(outcome)
    \/ \E outcome \in Outcomes(Absent) : SignOut(outcome)
    \/ \E outcome \in Outcomes(Absent) : ResetPassword(outcome)

SpecAuth == InitAuth /\ [][NextAuth]_vars

\* the page in Firebase mode (checkStoragePreference has registered updateUI with
\* onAuthStateChanged and set up the handlers of the authentication form). A handler
\* awaits the AuthManager; on a successful sign-in the provider notifies the page.
signedIn(pg, ls, button, result, user, shouldMigrate) ==
    IF result.success THEN updateUI(authHandler(pg, button, result), ls, user, shouldMigrate)
    ELSE [page |-> [authHandler(pg, button, result) EXCEPT
                        !.step = [NoStep EXCEPT !.op = "showAuthError"]],
          ls |-> ls]

LoginSubmit(email, outcome, shouldMigrate) ==
    /\ page.view = "auth"
    /\ "login" \notin page.disabled
    /\ page.signIns < MaxSignIns
    /\ authResult' = [signIn(outcome) EXCEPT !.op = "signIn", !.code = outcome.code]
    /\ currentUser' = IF outcome.resolved THEN email ELSE currentUser
    /\ \E r \in {signedIn(page, localStorage, "login", signIn(outcome), email,
                            shouldMigrate)} :
           page' = r.page /\ localStorage' = r.ls
    /\ UNCHANGED <<clock, nextId, removed, last, app>>

SignupSubmit(email, outcome, shouldMigrate) ==
    /\ page.view = "auth"
    /\ "signup" \notin page.disabled
    /\ page.signIns < MaxSignIns
    /\ authResult' = [signUp(outcome) EXCEPT !.op = "signUp", !.code = outcome.code]
    /\ currentUser' = IF outcome.resolved THEN email ELSE currentUser
    /\ \E r \in {signedIn(page, localStorage, "signup", signUp(outcome), email,
                            shouldMigrate)} :
           page' = r.page /\ localStorage' = r.ls
    /\ UNCHANGED <<clock, nextId, removed, last, app>>

GoogleSignInClick(outcome, shouldMigrate) ==
    /\ page.view = "auth"
    /\ "google" \notin page.disabled
    /\ page.signIns < MaxSignIns
    /\ authResult' = [signInWithGoogle(outcome) EXCEPT !.op = "signInWithGoogle",
                                                       !.code = outcome.code]
    /\ currentUser' = IF outcome.resolved THEN GoogleEmail ELSE currentUser
    /\ \E r \in {signedIn(page, localStorage, "google", signInWithGoogle(outcome),
                            GoogleEmail, shouldMigrate)} :
           page' = r.page /\ localStorage' = r.ls
    /\ UNCHANGED <<clock, nextId, removed, last, app>>

\* the logout button, the prompt accepted: on a sign-out the provider notifies the page
LogoutClick(outcome) ==
    /\ page.view = "app"
    /\ authResult' = [signOut(outcome) EXCEPT !.op = "signOut", !.code = outcome.code]
    /\ currentUser' = IF outcome.resolved THEN Absent ELSE currentUser
    /\ page' = IF outcome.resolved THEN updateUI(page, localStorage, Absent, FALSE).page
               ELSE [page EXCEPT !.step = [NoStep EXCEPT !.op = "signOutFailed"]]
    /\ UNCHANGED <<localStorage, clock, nextId, removed, last, app>>

\* the promise of migrateFromLocalStorage settles and the suspended run goes on
MigrationSettles(run, resolved) ==
    /\ run \in page.runs
    /\ \E r \in {resumeInitializeApp(page, localStorage, run, resolved)} :
           page' = r.page /\ localStorage' = r.ls
    /\ UNCHANGED <<clock, nextId, removed, last, currentUser, authResult, app>>

\* the page is loaded again: its script starts afresh and the provider notifies it of
\* the user it has kept. What was suspended is gone with the page.
Reload(shouldMigrate) ==
    /\ \E r \in {updateUI([NoPage EXCEPT !.migrated = page.migrated], localStorage,
                            currentUser, shouldMigrate)} :
           page' = r.page /\ localStorage' = r.ls
    /\ authResult' = NoResult
    /\ UNCHANGED <<clock, nextId, removed, last, currentUser, app>>

InitPage ==
    /\ localStorage \in LocalItems
    /\ clock = 0
    /\ nextId = 1
    /\ removed = {}
    /\ last = NoCall
    /\ currentUser = Absent
    /\ authResult = NoResult
    /\ page = NoPage
    /\ app = NoApp

NextPage ==
    \/ \E email \in Emails : \E outcome \in Outcomes(email) : \E shouldMigrate \in BOOLEAN :
          LoginSubmit(email, outcome, shouldMigrate)
    \/ \E email \in Emails : \E outcome \in Outcomes(email) : \E shouldMigrate \in BOOLEAN :
          SignupSubmit(email, outcome, shouldMigrate)
    \/ \E outcome \in Outcomes(GoogleEmail) : \E shouldMigrate \in BOOLEAN :
          GoogleSignInClick(outcome, shouldMigrate)
    \/ \E outcome \in Outcomes(Absent) : LogoutClick(outcome)
    \/ \E run \in page.runs, resolved \in BOOLEAN : MigrationSettles(run, resolved)
    \/ \E shouldMigrate \in BOOLEAN : Reload(shouldMigrate)

SpecPage == InitPage /\ [][NextPage]_vars

\* the forms of the main app. The page has loaded and the DOMContentLoaded handler of
\* app.js has built the App on the StorageService; in Firebase mode initializeApp then
\* builds a second App (FirebaseAppBuilt). Timers run in the order they were set.
localAdds(timers) ==
    Cardinality({i \in 1..Len(timers) :
                    /\ timers[i].kind = "expense"
                    /\ timers[i].storage = "local"
                    /\ timers[i].editId = Absent})

ExpenseFormSubmit(fields) ==
    /\ app.listeners # <<>>
    /\ Len(app.timers) < MaxTimers
    /\ nextId + localAdds(app.timers) <= MaxIds
    /\ app' = [submitExpense(app, fields, Len(app.listeners)) EXCEPT
                   !.step = [NoAppStep EXCEPT
                                !.op = "submitExpense",
                                !.valid = fieldsValid(fields),
                                !.scheduled = Len(submitExpense(app, fields,
                                                  Len(app.listeners)).timers)
                                              - Len(app.timers)]]
    /\ UNCHANGED <<localStorage, clock, nextId, removed, last, currentUser, authResult,
                   page>>

BudgetFormSubmit(amountField) ==
    /\ app.listeners # <<>>
    /\ Len(app.timers) < MaxTimers
    /\ app' = [submitBudget(app, amountField, Len(app.listeners)) EXCEPT
                   !.step = [NoAppStep EXCEPT
                                !.op = "submitBudget",
                                !.valid = validateField(amountField, BudgetRules),
                                !.scheduled = Len(submitBudget(app, amountField,
                                                  Len(app.listeners)).timers)
                                              - Len(app.timers)]]
    /\ UNCHANGED <<localStorage, clock, nextId, removed, last, currentUser, authResult,
                   page>>

\* the timer set first runs its callback
Timeout(full) ==
    /\ app.timers # <<>>
    /\ \E r \in {timeout(localStorage, Head(app.timers), generateId(nextId), clock, full)} :
           /\ localStorage' = r.ls
           /\ nextId' = IF r.call = "addExpense" /\ Head(app.timers).storage = "local"
                        THEN nextId + 1 ELSE nextId
           /\ app' = [app EXCEPT !.timers = Tail(@),
                                  !.editId = IF r.reset THEN Absent ELSE @,
                                  !.step = [NoAppStep EXCEPT !.op = "timeout",
                                                             !.valid = TRUE,
                                                             !.call = r.call]]
    /\ UNCHANGED <<clock, removed, last, currentUser, authResult, page>>

\* the delete button of an expense, the prompt accepted: app.deleteExpense(id)
DeleteClick(id, full) ==
    /\ app.listeners # <<>>
    /\ localStorage' = deleteExpense(localStorage, id, clock, full).ls
    /\ app' = [app EXCEPT !.step = [NoAppStep EXCEPT !.op = "deleteExpense",
                                                     !.call = "deleteExpense"]]
    /\ UNCHANGED <<clock, nextId, removed, last, currentUser, authResult, page>>

\* the edit button of an expense: app.editExpense(id) puts the form in edit mode
EditClick(id) ==
    /\ app.listeners # <<>>
    /\ findIndex(getAllExpenses(localStorage, clock), id) # 0
    /\ app' = [app EXCEPT !.editId = id, !.step = [NoAppStep EXCEPT !.op = "editExpense"]]
    /\ UNCHANGED <<localStorage, clock, nextId, removed, last, currentUser, authResult,
                   page>>

\* Firebase mode: initializeApp builds its App, whose constructor calls init(), hands
\* it the FirebaseStorageService and its managers and calls init() again
FirebaseAppBuilt ==
    /\ app.listeners = <<"local">>
    /\ app.timers = <<>>
    /\ app' = [init(init(app, "cloud"), "cloud") EXCEPT
                   !.step = [NoAppStep EXCEPT !.op = "initializeApp"]]
    /\ UNCHANGED <<localStorage, clock, nextId, removed, last, currentUser, authResult,
                   page>>

InitForms ==
    /\ localStorage \in {NoItem, GarbageItem, ItemOf(TextOf(RecordR))}
    /\ clock = 0
    /\ nextId = 1
    /\ removed = {}
    /\ last = NoCall
    /\ currentUser = Absent
    /\ authResult = NoResult
    /\ page = NoPage
    /\ app = init(NoApp, "local")

\* local mode: the page never builds a second App
NextForms ==
    \/ \E fields \in Fields : ExpenseFormSubmit(fields)
    \/ \E amountField \in BudgetFields : BudgetFormSubmit(amountField)
    \/ \E full \in BOOLEAN : Timeout(full)
    \/ \E id \in ButtonIds, full \in BOOLEAN : DeleteClick(id, full)
    \/ \E id \in ButtonIds : EditClick(id)

SpecForms == InitForms /\ [][NextForms]_vars

\* local mode or Firebase mode
NextCloudForms ==
    \/ \E fields \in Fields : ExpenseFormSubmit(fields)
    \/ \E amountField \in BudgetFields : BudgetFormSubmit(amountField)
    \/ \E full \in BOOLEAN : Timeout(full)
    \/ FirebaseAppBuilt

SpecCloudForms == InitForms /\ [][NextCloudForms]_vars

\* the queries, on a key that holds any content when the page loads
StoredItems ==
    Contents \cup {ItemOf(TextOf([RecordR EXCEPT !.expenses = <<ExpenseE, ExpenseF>>]))}

InitReads ==
    /\ localStorage \in StoredItems
    /\ clock = 0
    /\ nextId = 1
    /\ removed = {}
    /\ last = NoCall
    /\ currentUser = Absent
    /\ authResult = NoResult
    /\ page = NoPage
    /\ app = NoApp

Query(query) ==
    /\ localStorage' = afterQuery(localStorage, clock, query)
    /\ last' = [NoCall EXCEPT !.op = query, !.ok = TRUE]
    /\ UNCHANGED <<clock, nextId, removed, currentUser, authResult, page, app>>

NextReads ==
    \/ \E query \in Queries : Query(query)
    \/ Tick /\ UNCHANGED removed

SpecReads == InitReads /\ [][NextReads]_vars

\* ---------------------------------------------------------------- claims
\* the expenses of the record carry no id twice
UniqueIds(es) == \A i, j \in 1..Len(es) : es[i].id = es[j].id => i = j

\* a < b on finite numbers
LessThan(a, b) ==
    IF a.neg # b.neg THEN a.neg
    ELSE IF a.neg THEN LessMag(b.m, a.m)
    ELSE LessMag(a.m, b.m)

\* the ids addExpense has returned so far (no input of SpecAddDelete carries an id)
ReturnedIds == {generateId(i) : i \in 1..(nextId - 1)}

\* C1: after addExpense calls with valid inputs, deleteExpense(id) on a returned id
\* (not deleted since) returns true, getAllExpenses() then holds no expense with that
\* id and getTotalExpenses() is lower than before by exactly that expense's amount.
C1_DeleteReturnedId ==
    \A id \in ReturnedIds \ removed :
        LET before == getAllExpenses(localStorage, clock)
            index == findIndex(before, id)
            r == deleteExpense(localStorage, id, clock, FALSE)
            after == getAllExpenses(r.ls, clock)
        IN  /\ index # 0
            /\ r.ok
            /\ \A i \in 1..Len(after) : after[i].id # id
            /\ Len(after) = Len(before) - 1
            /\ Minus(getTotalExpenses(localStorage, clock), getTotalExpenses(r.ls, clock))
                 = before[index].amount

\* a returned id was deleted while another expense stays in the record
C1_Witness ==
    /\ last.op = "deleteExpense" /\ last.ok
    /\ removed # {}
    /\ ReturnedIds \ removed # {}
    /\ IsPositive(getTotalExpenses(localStorage, clock))

\* C2: after any calls of setBudget, addExpense, updateExpense and deleteExpense,
\* getRemainingBudget() equals getBudget() minus getTotalExpenses(), with no floor at
\* zero: it is negative whenever the expenses sum to more than the budget.
C2_RemainingIsBudgetMinusTotal ==
    LET budget == getBudget(localStorage, clock)
        total == getTotalExpenses(localStorage, clock)
        remaining == getRemainingBudget(localStorage, clock)
    IN  /\ remaining = Minus(budget, total)
        /\ (budget.k = "num" /\ total.k = "num" /\ LessThan(budget, total))
              => IsNegative(remaining)

\* budget 1000 and expenses summing to 1500 give -500
C2_Witness ==
    /\ getBudget(localStorage, clock) = Num(100000)
    /\ getTotalExpenses(localStorage, clock) = Num(150000)
    /\ getRemainingBudget(localStorage, clock) = Num(-50000)

\* C3: saveData(r) followed by getData() returns a record equal to r for every r that
\* passes validateDataStructure; when r fails validation saveData returns false and
\* getData() returns what it returned before. (On a store that takes the write.)
C3_SaveThenGet ==
    [][\A data \in Records :
          SaveData(data, FALSE) =>
              IF validateDataStructure(data)
              THEN getData(localStorage', clock') = data
              ELSE /\ ~last'.ok
                   /\ getData(localStorage', clock') = getData(localStorage, clock)]_vars

\* the rule of the claim for one expense: a numeric amount >= 0 and the four texts
WellFormed(e) ==
    /\ e.amount.k = "num" /\ ~IsNegative(e.amount)
    /\ ~Falsy(e.id) /\ ~Falsy(e.description) /\ ~Falsy(e.category) /\ ~Falsy(e.date)

\* C4: after any calls with arbitrary arguments (updateExpense(id, {amount: -5}) among
\* them) every expense of the record getData() returns has a numeric amount >= 0 and
\* a non-empty id, description, category and date; a stored record that breaks this is
\* read back as the default record.
C4_AmountsNotNegative ==
    LET data == getData(localStorage, clock)
        doc == localStorage.doc
    IN  /\ \A i \in 1..Len(data.expenses) : WellFormed(data.expenses[i])
        /\ (/\ localStorage.present /\ localStorage.parses /\ doc.obj /\ doc.arr
            /\ \E i \in 1..Len(doc.expenses) : ~WellFormed(doc.expenses[i]))
              => data = getDefaultData(clock)

\* C5: for every input object, after addExpense getAllExpenses() has exactly one more
\* element than before and its last element is the expense addExpense returned.
C5_AddReturnsStored ==
    [][\A expense \in Inputs :
          (AddExpense(expense, FALSE) /\ ~expense.undef) =>
              LET r == addExpense(localStorage, expense, generateId(nextId), clock, FALSE)
              IN  getAllExpenses(localStorage', clock')
                    = Append(getAllExpenses(localStorage, clock), r.ret)]_vars

\* the entry the claim expects of updateExpense: the properties of updates over those
\* of old, the amount coerced, the update stamped
C6_Expected(old, updates, now) ==
    [mergedExpenseOf(old, updates, now)
        EXCEPT !.amount = IF updates.amount = Absent THEN old.amount
                          ELSE parseFloat(updates.amount)]

\* C6: for every id of the record and every changes object, complete or partial,
\* updateExpense returns the entry merged from the old entry and the changes, and the
\* record then holds that entry at the old position, all else unchanged.
C6_UpdateMerges ==
    [][\A id \in Ids, updates \in Updates :
          LET before == getAllExpenses(localStorage, clock)
              index == findIndex(before, id)
              r == updateExpense(localStorage, id, updates, clock, FALSE)
          IN  (UpdateExpense(id, updates, FALSE) /\ index # 0 /\ ~updates.undef) =>
                  /\ r.ret = C6_Expected(before[index], updates, clock)
                  /\ getAllExpenses(localStorage', clock')
                        = [before EXCEPT ![index] = r.ret]]_vars

\* the result of a call that found no expense with the id: null or false, nothing
\* thrown, no saveData, the item as it was
NoMatch(ls) == [ok |-> FALSE, ret |-> NoExpense, saved |-> "none", threw |-> FALSE, ls |-> ls]

\* C7: updateExpense and deleteExpense with an id no expense of the record has return
\* null, respectively false, throw nothing, write nothing and leave the stored item.
C7_UnknownIdIsNoOp ==
    \A id \in Ids, full \in BOOLEAN :
        findIndex(getAllExpenses(localStorage, clock), id) = 0 =>
            /\ \A updates \in Updates :
                  updateExpense(localStorage, id, updates, clock, full) = NoMatch(localStorage)
            /\ deleteExpense(localStorage, id, clock, full) = NoMatch(localStorage)

\* a call that found no match was made on a record that holds expenses
C7_Witness ==
    /\ last.op \in {"updateExpense", "deleteExpense"}
    /\ ~last.ok /\ ~last.threw /\ last.saved = "none"
    /\ Len(getAllExpenses(localStorage, clock)) > 0
    /\ \E id \in Ids : findIndex(getAllExpenses(localStorage, clock), id) = 0

\* C8: no two expenses of the record have the same id (generateId never repeats).
C8_IdsUnique == UniqueIds(getAllExpenses(localStorage, clock))

\* C9: after setBudget(x), getBudget() is a number >= 0, the parsed x when that is not
\* negative and 0 when x does not parse; the expenses are unchanged.
C9_BudgetNotNegative ==
    [][\A amount \in BudgetInputs :
          SetBudget(amount, FALSE) =>
              LET b == getBudget(localStorage', clock')
                  x == parseFloat(amount)
              IN  /\ b.k = "num" /\ ~IsNegative(b)
                  /\ (x.k = "num" /\ ~IsNegative(x)) => b = x
                  /\ x.k = "NaN" => b = Zero
                  /\ getAllExpenses(localStorage', clock')
                        = getAllExpenses(localStorage, clock)]_vars

\* C10: when the saveData inside addExpense, updateExpense, deleteExpense or setBudget
\* fails, the call's result differs from the result of a success.
C10_FailureSurfaced ==
    (last.op \in {"addExpense", "updateExpense", "deleteExpense", "setBudget"}
        /\ last.saved = "failed") => ~last.ok

\* C11: getData() never throws: whatever the storage key holds (nothing, a text that
\* is no JSON, JSON that fails validateDataStructure, an expenses array holding null
\* among them, or a valid record) it returns the parsed record when the content is
\* valid and otherwise the default record with budget 0 and no expenses.
C11_GetDataDegrades ==
    LET valid == /\ localStorage.present /\ localStorage.parses
                 /\ validateDataStructure(localStorage.doc)
        data == getData(localStorage, clock)
    IN  /\ valid => data = localStorage.doc
        /\ ~valid => /\ data = getDefaultData(clock)
                     /\ data.budget = Zero /\ data.expenses = <<>>

\* the key holds JSON whose expenses array holds null: validateDataStructure throws
C11_Witness ==
    /\ localStorage.present /\ localStorage.parses
    /\ validateThrows(localStorage.doc)
    /\ getData(localStorage, clock) = getDefaultData(clock)

\* C12: saveData(r) returns true if and only if r was persisted; when r fails
\* validation, when its text exceeds 5 MiB or when the store throws, it returns false
\* and the stored content stays what it was.
C12_SavedIffPersisted ==
    [][\A data \in Records, full \in BOOLEAN :
          SaveData(data, full) =>
              /\ last'.ok => getData(localStorage', clock') = data
              /\ (\/ ~validateDataStructure(data)
                  \/ SerializedLength(Stringify(data)) > StorageLimit
                  \/ full) => ~last'.ok
              /\ ~last'.ok => localStorage' = localStorage]_vars

\* C13: importData(text) returns true, and then has replaced the stored record by the
\* parsed one, only when text parses as JSON and passes validation; for every other
\* text it returns false and the stored content is unchanged.
C13_ImportChecks ==
    [][\A jsonString \in Texts, full \in BOOLEAN :
          ImportData(jsonString, full) =>
              LET valid == jsonString.parses /\ validateDataStructure(jsonString.doc)
              IN  /\ last'.ok => /\ valid
                                 /\ localStorage' = ItemOf(TextOf(jsonString.doc))
                  /\ ~valid => ~last'.ok
                  /\ ~last'.ok => localStorage' = localStorage]_vars

\* an import was refused and the valid record stored before is still there
C13_Witness ==
    /\ last.op = "importData" /\ ~last.ok
    /\ localStorage.present /\ localStorage.parses
    /\ validateDataStructure(localStorage.doc)
    /\ localStorage.doc.expenses # <<>>

RECURSIVE SumTenths(_, _)
SumTenths(stats, cs) ==
    IF cs = {} THEN 0
    ELSE LET c == CHOOSE x \in cs : TRUE
         IN  stats[c].percentage.tenths + SumTenths(stats, cs \ {c})

IsZero(x) == x.k = "num" /\ x.m = <<>>

\* C15: the percentages of getCategoryStatistics(), summed over the categories, are
\* within 0.05 per category of 100 whenever getTotalExpenses() is nonzero, and sum to
\* 0 when there are no expenses.
C15_PercentagesSumTo100 ==
    LET stats == getCategoryStatistics(localStorage, clock)
        total == getTotalExpenses(localStorage, clock)
        sum == SumTenths(stats, DOMAIN stats)
        off == IF sum < 1000 THEN 1000 - sum ELSE sum - 1000
    IN  /\ getAllExpenses(localStorage, clock) = <<>> => sum = 0
        /\ ~IsZero(total) =>
              /\ \A c \in DOMAIN stats : ~stats[c].percentage.nan
              /\ 2 * off <= Cardinality(DOMAIN stats)

\* expenses are stored and their total is not zero
C15_Witness ==
    /\ getAllExpenses(localStorage, clock) # <<>>
    /\ ~IsZero(getTotalExpenses(localStorage, clock))

\* C16: for every category with an expense, getCategoryStatistics() gives total = the
\* sum of the category's amounts, count = the number of its expenses and percentage =
\* 100 * total / grand total rounded to one decimal, as a number (0 when the grand
\* total is 0); categories without an expense are absent. Food 1200 and transport 300
\* give food {1200, 1, 80.0} and transport {300, 1, 20.0}.
C16_StatisticsPerCategory ==
    LET expenses == getAllExpenses(localStorage, clock)
        total == getTotalExpenses(localStorage, clock)
        stats == getCategoryStatistics(localStorage, clock)
    IN  /\ DOMAIN stats = {expenses[i].category : i \in 1..Len(expenses)}
        /\ \A c \in DOMAIN stats :
              /\ stats[c].total = reduceSum(ofCategory(expenses, c), Zero)
              /\ stats[c].count = Len(ofCategory(expenses, c))
              /\ stats[c].percentage.k = "num"
              /\ IsZero(total) => stats[c].percentage.tenths = 0
              /\ (total.k = "num" /\ ~IsZero(total) /\ stats[c].total.k = "num") =>
                    stats[c].percentage.tenths = toFixed1(Percent(stats[c].total, total))
        /\ (Len(expenses) = 2 /\ total = Num(150000)
                /\ DOMAIN stats = {"food", "transport"}
                /\ stats["food"].total = Num(120000)) =>
              /\ stats["food"] = [total |-> Num(120000), count |-> 1,
                                   percentage |-> [NumberZero EXCEPT !.tenths = 800]]
              /\ stats["transport"] = [total |-> Num(30000), count |-> 1,
                                        percentage |-> [NumberZero EXCEPT !.tenths = 200]]

\* food 1200 and transport 300 are stored
C16_Witness ==
    LET stats == getCategoryStatistics(localStorage, clock)
    IN  /\ DOMAIN stats = {"food", "transport"}
        /\ stats["food"].total = Num(120000) /\ stats["food"].count = 1
        /\ stats["transport"].total = Num(30000) /\ stats["transport"].count = 1

\* the timestamps the manager can assign
ManagerStamps == {toISOString(t) : t \in Instants}

\* C17: createdAt and updatedAt of a stored expense are values assigned by the
\* ExpenseManager whatever the caller passes: createdAt is the value addExpense set and
\* no updateExpense changes it, updatedAt is the manager's timestamp of the last update.
C17_TimestampsByManager ==
    [][LET before == getAllExpenses(localStorage, clock)
           after == getAllExpenses(localStorage', clock')
       IN  /\ \A i \in 1..Len(after) :
                 /\ after[i].createdAt \in ManagerStamps
                 /\ after[i].updatedAt \in ManagerStamps \cup {Absent}
           /\ \A id \in Ids, updates \in {UpdateAll, StampedUpdate} :
                 (UpdateExpense(id, updates, FALSE) /\ last'.ok) =>
                    /\ Len(after) = Len(before)
                    /\ \A i \in 1..Len(after) :
                          /\ after[i].createdAt = before[i].createdAt
                          /\ after[i].id = id => after[i].updatedAt = toISOString(clock)
           /\ \A expense \in {InputA, StampedInput} :
                 (AddExpense(expense, FALSE) /\ last'.saved = "ok") =>
                    /\ Len(after) = Len(before) + 1
                    /\ after[Len(after)].createdAt = toISOString(clock)
                    /\ after[Len(after)].updatedAt = Absent]_vars

\* an expense added at the first instant was updated at the later one
C17_Witness ==
    /\ last.op = "updateExpense" /\ last.ok /\ last.saved = "ok"
    /\ clock = 1
    /\ \E i \in 1..Len(getAllExpenses(localStorage, clock)) :
          /\ getAllExpenses(localStorage, clock)[i].updatedAt = toISOString(1)
          /\ getAllExpenses(localStorage, clock)[i].createdAt # toISOString(1)

\* x names a later day than y; a text that names no day is not later than any
Later(x, y) == newDate(x).valid /\ newDate(y).valid /\ newDate(x).day > newDate(y).day

\* C18: getRecentExpenses(n) returns min(n, number of expenses) expenses ordered by
\* non-increasing date, and every expense it does not return has a date no later than
\* the date of every returned one.
C18_RecentExpenses ==
    \A n \in Limits :
        \A r \in getRecentExpenses(localStorage, clock, n) :
            LET all == getAllExpenses(localStorage, clock)
            IN  /\ Len(r) = IF n < Len(all) THEN n ELSE Len(all)
                /\ \A i \in 1..Len(r) : \E k \in 1..Len(all) : r[i] = all[k]
                /\ \A i, j \in 1..Len(r) : i < j => ~Later(r[j].date, r[i].date)
                /\ \A k \in 1..Len(all) :
                      (\A i \in 1..Len(r) : r[i].id # all[k].id) =>
                          \A i \in 1..Len(r) : ~Later(all[k].date, r[i].date)

\* three expenses are stored, the one added last the most recent
C18_Witness ==
    LET all == getAllExpenses(localStorage, clock)
    IN  /\ Len(all) = 3
        /\ Later(all[3].date, all[2].date)
        /\ Later(all[2].date, all[1].date)
        /\ getRecentExpenses(localStorage, clock, 1) = {<<all[3]>>}

\* the day counts from 1 to a month
DayCounts == 1..31

\* C19: getAverageDailySpending() returns 0 when there are no expenses and otherwise
\* getTotalExpenses() divided by a day count that is at least 1, also when the earliest
\* expense date is today or lies in the future.
C19_AverageDailySpending ==
    LET expenses == getAllExpenses(localStorage, clock)
        average == getAverageDailySpending(localStorage, clock)
    IN  /\ expenses = <<>> => average = Quotient(Zero, 1)
        /\ expenses # <<>> =>
              \E d \in DayCounts :
                  average = Quotient(getTotalExpenses(localStorage, clock), d)

\* the only expense is dated after the day of the clock, and the average is the total
C19_Witness ==
    LET expenses == getAllExpenses(localStorage, clock)
    IN  /\ Len(expenses) = 1
        /\ newDate(expenses[1].date).valid
        /\ newDate(expenses[1].date).day * HoursPerDay > Today(clock)
        /\ getAverageDailySpending(localStorage, clock) = Quotient(expenses[1].amount, 1)

\* C20: each of signUp, signIn, signInWithGoogle, signOut and resetPassword resolves to
\* an object of the shape {success, user|error}: success a boolean, user on a
\* successful sign-up or sign-in, an error string on failure.
C20_UniformShape ==
    authResult.op # "none" =>
        /\ authResult.type = "object"
        /\ (authResult.success /\ authResult.op \in {"signUp", "signIn", "signInWithGoogle"})
              => authResult.user # Absent
        /\ ~authResult.success => authResult.error # Absent

\* signOut has resolved, the user being signed in before
C20_Witness ==
    /\ authResult.op = "signOut"
    /\ authResult.value
    /\ currentUser = Absent

\* C21: an auth operation that fails with the provider's code c returns, as its error
\* string, the entry for c in the table of getErrorMessage when c is in the table and
\* the generic fallback message otherwise: the same code gives the same string from
\* every operation.
C21_ErrorFromTable ==
    (authResult.op # "none" /\ authResult.code # Absent) =>
        authResult.error = getErrorMessage(authResult.code)

\* the Google popup was closed by the user
C21_Witness ==
    /\ authResult.op = "signInWithGoogle"
    /\ authResult.code = "auth/popup-closed-by-user"
    /\ ~authResult.success

\* C21 for the operations that return an object, signInWithGoogle apart
C21_ErrorFromTableElsewhere ==
    (authResult.op \in {"signUp", "signIn", "resetPassword"} /\ authResult.code # Absent) =>
        authResult.error = getErrorMessage(authResult.code)

\* C22: every notification of a signed-in user, also one that follows a sign-out in the
\* same page, switches the app to a storage service and managers initialized for that
\* sign-in: once no run of initializeApp is pending, the App in use was built by the
\* run of the latest sign-in.
C22_InitializedForSignIn ==
    (currentUser # Absent /\ page.runs = {}) =>
        /\ page.firebaseApp.built
        /\ page.firebaseApp.of = page.signIns

\* a user signs in on a page that built its App for an earlier sign-in
C22_Witness ==
    /\ currentUser # Absent
    /\ page.signIns = 2
    /\ page.step.op = "return"
    /\ page.firebaseApp = [built |-> TRUE, of |-> 1]

\* C22 for the first sign-in of a page
C22_InitializedForFirstSignIn ==
    (currentUser # Absent /\ page.runs = {} /\ page.signIns = 1) =>
        page.firebaseApp = [built |-> TRUE, of |-> 1]

\* C23: a client session has exactly one real-time subscription once the app is
\* initialized and never more than one: whatever the order and timing of the
\* notifications, the App is constructed and subscribeToChanges is called at most once.
C23_OneSubscription ==
    /\ page.apps <= 1
    /\ page.subscriptions <= 1
    /\ page.firebaseApp.built => page.subscriptions = 1

\* two runs of initializeApp were suspended at the migration and both went on
C23_Witness ==
    /\ page.step.op = "resume"
    /\ page.apps = 2
    /\ page.subscriptions = 2

C27_ButtonsEnabled ==
    (page.view = "auth" /\ currentUser = Absent) => page.disabled = {}

\* a user signed in with the login form and signed out again
C27_Witness ==
    /\ page.view = "auth"
    /\ currentUser = Absent
    /\ page.step.op = "signedOut"
    /\ "login" \in page.disabled

\* C27 for a page on which nobody has signed in yet, whatever calls have failed
C27_ButtonsEnabledAtFirst ==
    (page.view = "auth" /\ page.signIns = 0) => page.disabled = {}

\* an expense as the expense form lets it through: description, category and date not
\* empty, the amount a number from 0.01 to 999999999
FormValid(e) ==
    /\ ~Falsy(e.description) /\ ~Falsy(e.category) /\ ~Falsy(e.date)
    /\ e.amount.k = "num"
    /\ ~Lt(e.amount, AmountRules.min)
    /\ ~Lt(AmountRules.max, e.amount)

\* C25: every expense that handleExpenseSubmit adds to the record or updates in it has
\* a non-empty description, category and date and an amount from 0.01 to 999999999
\* (the deferred step writes the values validated at the submit event); a submit
\* event in which a field fails validation sets no timer, so that it changes nothing.
C25_SubmittedExpensesValid ==
    LET expenses == getAllExpenses(localStorage, clock)
    IN  /\ \A i \in 1..Len(expenses) : FormValid(expenses[i])
        /\ (app.step.op = "submitExpense" /\ ~app.step.valid) => app.step.scheduled = 0

\* the deferred step has added an expense of the smallest amount, its description trimmed
C25_Witness ==
    LET expenses == getAllExpenses(localStorage, clock)
    IN  /\ app.step.op = "timeout"
        /\ app.step.call = "addExpense"
        /\ \E i \in 1..Len(expenses) :
              /\ expenses[i].id = generateId(nextId - 1)
              /\ expenses[i].amount = AmountRules.min
              /\ expenses[i].description = "lunch"

\* C26: one valid submission of the expense form makes exactly one addExpense call (one
\* updateExpense call in edit mode) and one valid submission of the budget form exactly
\* one setBudget call, in local mode and in Firebase mode: the submit event sets
\* exactly one timer, and a timer makes one call.
C26_OneCallPerSubmission ==
    (app.step.op \in {"submitExpense", "submitBudget"} /\ app.step.valid) =>
        app.step.scheduled = 1

\* Firebase mode: one valid submission of the expense form has set three timers, one
\* of the App on the StorageService and two of the App of initializeApp
C26_Witness ==
    /\ app.listeners = <<"local", "cloud", "cloud">>
    /\ app.step.op = "submitExpense"
    /\ app.step.valid
    /\ app.step.scheduled = 3
    /\ Len(app.timers) = 3
    /\ \A i \in 1..3 : app.timers[i].formData = app.timers[1].formData

\* C28: in local mode the deferred steps of budget and expense submissions and the
\* immediate deletes, in any interleaving, each apply as one read-modify-write of the
\* record as it is when they run: a budget step leaves the expenses as they are, an
\* expense step or a delete leaves the budget as it is, and each changes nothing else
\* than what it is about, so that no step undoes the change of another.
C28_AtomicReadModifyWrite ==
    [][ LET before == getData(localStorage, clock)
            after == getData(localStorage', clock')
            timer == Head(app.timers)
            written == localStorage' # localStorage
        IN  /\ (app'.step.op = "timeout" /\ app'.step.call = "setBudget") =>
                  /\ after.expenses = before.expenses
                  /\ written => after.budget = OrZero(parseFloat(timer.amount))
            /\ (app'.step.op = "timeout" /\ app'.step.call = "addExpense") =>
                  /\ after.budget = before.budget
                  /\ ~written => after.expenses = before.expenses
                  /\ written =>
                        /\ Len(after.expenses) = Len(before.expenses) + 1
                        /\ SubSeq(after.expenses, 1, Len(before.expenses)) = before.expenses
                        /\ after.expenses[Len(after.expenses)].description
                               = timer.formData.description
            /\ (app'.step.op = "timeout" /\ app'.step.call = "updateExpense") =>
                  /\ after.budget = before.budget
                  /\ Len(after.expenses) = Len(before.expenses)
                  /\ \A i \in 1..Len(before.expenses) :
                        \/ after.expenses[i] = before.expenses[i]
                        \/ before.expenses[i].id = timer.editId
            /\ app'.step.op = "deleteExpense" =>
                  /\ after.budget = before.budget
                  /\ Len(after.expenses) <= Len(before.expenses)
                  /\ \A i \in 1..Len(after.expenses) :
                        \E j \in 1..Len(before.expenses) :
                            after.expenses[i] = before.expenses[j]
      ]_vars

\* a budget step has run between two expense steps: the record has the new budget and
\* the expense added before it, and the second expense step is still pending
C28_Witness ==
    /\ app.listeners = <<"local">>
    /\ app.step.op = "timeout"
    /\ app.step.call = "setBudget"
    /\ app.timers # <<>>
    /\ Head(app.timers).kind = "expense"
    /\ getBudget(localStorage, clock) = Parsed["5000"]
    /\ Len(getAllExpenses(localStorage, clock)) = 2

C30_WitnessCorrupt ==
    /\ last.op \in Queries
    /\ ~localStorage.present \/ getData(localStorage, clock) # localStorage.doc

====
